---- MODULE Spec2Model ----
(***************************************************************************)
(* A model of gnisdata.py: the acquisition pipeline (download, archive     *)
(* extraction, on-disk cache, table load) of the GNIS data package.        *)
(*                                                                         *)
(* Text is modelled as a sequence of symbols: a location is a sequence of  *)
(* one-character strings, so that str.upper() is computed character by     *)
(* character; file names, URLs and messages are sequences whose elements   *)
(* are literal fragments of the f-strings and the characters spliced in.   *)
(* Bytes are sequences of symbols as well: an archive is the sequence of   *)
(* its member records followed by the end-of-central-directory mark.       *)
(***************************************************************************)
EXTENDS Integers, Sequences, FiniteSets, TLC

VARIABLES
    rootExists, \* the cache root directory exists
    cache,      \* files directly under the cache root: name -> content
    tmp_file,   \* the temporary file of the running (or last) call exists
    pc,         \* position of the caller inside the running operation
    call,       \* the running (or last) operation and its arguments
    zip_data,   \* load_gnis_gdf: the downloaded bytes
    gpkg_data,  \* load_gnis_gdf: the extracted bytes
    http,       \* HTTP requests issued by the running (or last) operation
    nDownload,  \* download_gnis_data calls of the running (or last) operation
    nExtract,   \* extract_gpkg_from_zip calls of the running (or last) operation
    loads,      \* gpd.read_file attempts of the running (or last) operation
    path,       \* load_gnis_gdf: the branches taken by the running call
    ret,        \* what the last operation returned or raised
    prev,       \* session view: summary of the load_gnis_gdf call before this one
    table,      \* create_enriched_export: the table being built
    row,        \* create_enriched_export: rows the elevation loop has passed
    events,     \* create_enriched_export: its calls of collaborators, in order
    other       \* concurrent callers: the call that is not taking the next step

\* the state of a create_enriched_export call
exportVars == <<table, row, events>>

vars == <<rootExists, cache, tmp_file, pc, call, zip_data, gpkg_data,
          http, nDownload, nExtract, loads, path, ret, prev, table, row, events,
          other>>

(***************************************************************************)
(* Bounds of the model.                                                    *)
(***************************************************************************)
\* distinct contents a member or a cached file may have: 0..MaxByte
MaxByte == 1
\* members of an archive handed to extract_gpkg_from_zip
MaxMembers == 2

(***************************************************************************)
(* Constants of the program.                                               *)
(***************************************************************************)
BASE_URL == "https://prd-tnm.s3.amazonaws.com/StagedProducts/GeographicNames/FullModel/"

DOWNLOAD_TIMEOUT == 30

DEFAULT_CHUNK_SIZE == 8192

VALID_STATES == {
    <<"A","L">>, <<"A","K">>, <<"A","Z">>, <<"A","R">>, <<"C","A">>, <<"C","O">>,
    <<"C","T">>, <<"D","E">>, <<"F","L">>, <<"G","A">>, <<"H","I">>, <<"I","D">>,
    <<"I","L">>, <<"I","N">>, <<"I","A">>, <<"K","S">>, <<"K","Y">>, <<"L","A">>,
    <<"M","E">>, <<"M","D">>, <<"M","A">>, <<"M","I">>, <<"M","N">>, <<"M","S">>,
    <<"M","O">>, <<"M","T">>, <<"N","E">>, <<"N","V">>, <<"N","H">>, <<"N","J">>,
    <<"N","M">>, <<"N","Y">>, <<"N","C">>, <<"N","D">>, <<"O","H">>, <<"O","K">>,
    <<"O","R">>, <<"P","A">>, <<"R","I">>, <<"S","C">>, <<"S","D">>, <<"T","N">>,
    <<"T","X">>, <<"U","T">>, <<"V","T">>, <<"V","A">>, <<"W","A">>, <<"W","V">>,
    <<"W","I">>, <<"W","Y">>, <<"D","C">>, <<"A","S">>, <<"G","U">>, <<"M","P">>,
    <<"P","R">>, <<"V","I">>, <<"U","M">>, <<"D","C">> }

VALID_ALL_LOCATIONS == {
    <<"N","A","T","I","O","N","A","L">>, <<"A","L","L">>,
    <<"U","S">>, <<"U","S","A">> }

(***************************************************************************)
(* str.upper() on ASCII text.                                              *)
(***************************************************************************)
LowerLetters == <<"a", "b", "c", "d", "e", "f", "g", "h", "i", "j", "k", "l", "m", "n", "o", "p", "q", "r", "s", "t", "u", "v", "w", "x", "y", "z">>

UpperLetters == <<"A", "B", "C", "D", "E", "F", "G", "H", "I", "J", "K", "L", "M", "N", "O", "P", "Q", "R", "S", "T", "U", "V", "W", "X", "Y", "Z">>

UpperChar(c) ==
    IF \E i \in 1..Len(LowerLetters) : LowerLetters[i] = c
    THEN UpperLetters[CHOOSE i \in 1..Len(LowerLetters) : LowerLetters[i] = c]
    ELSE c

Upper(s) == [i \in 1..Len(s) |-> UpperChar(s[i])]

(***************************************************************************)
(* Results of an operation: a returned value or a raised exception.        *)
(***************************************************************************)
Return(v) == [kind |-> "return", value |-> v]

Raise(t, m) == [kind |-> "raise", type |-> t, msg |-> m]

NoResult == [kind |-> "none"]

GNISDataError(m) == Raise("GNISDataError", m)

(***************************************************************************)
(* _construct_url: the URL of a location's archive, or GNISDataError.      *)
(***************************************************************************)
ConstructUrl(location) ==
    LET loc == Upper(location) IN
    IF loc \in VALID_ALL_LOCATIONS
    THEN Return(<<BASE_URL, "Gazetteer_National_GPKG.zip">>)
    ELSE IF loc \in VALID_STATES
    THEN Return(<<BASE_URL, "Gazetteer_">> \o loc \o <<"_GPKG.zip">>)
    ELSE GNISDataError([fmt |-> "Invalid location: {location}. Must be 'National' or a valid state code.",
                        location |-> loc])

(***************************************************************************)
(* The HTTP transport (requests.get, raise_for_status, iter_content) is    *)
(* an external collaborator: a response says where the transfer failed,    *)
(* or carries the chunks the server streamed.                              *)
(***************************************************************************)
TransportFailures == {
    [at |-> "requests.get", cause |-> "ConnectionError"],
    [at |-> "requests.get", cause |-> "Timeout"],
    [at |-> "raise_for_status", cause |-> "HTTPError"],
    [at |-> "iter_content", cause |-> "ChunkedEncodingError"] }

FailedResponse(f) == [kind |-> "error", at |-> f.at, cause |-> f.cause]

OkResponse(chunks) == [kind |-> "ok", chunks |-> chunks]

\* mutant of JoinChunks: later chunks are written in front
RECURSIVE JoinChunksReversed(_)
JoinChunksReversed(chunks) == IF chunks = <<>> THEN <<>> ELSE JoinChunksReversed(Tail(chunks)) \o Head(chunks)
\* zip_content.write(chunk) for every non-empty chunk, in arrival order
RECURSIVE JoinChunks(_)
JoinChunks(chunks) ==
    IF chunks = <<>> THEN <<>>
    ELSE IF Head(chunks) # <<>>
         THEN Head(chunks) \o JoinChunks(Tail(chunks))
         ELSE JoinChunks(Tail(chunks))

(***************************************************************************)
(* download_gnis_data: the result and the HTTP requests issued, given the  *)
(* transport's response.                                                   *)
(***************************************************************************)
\* mutant of DownloadRequest: the body is not streamed
DownloadRequestBuffered(url, chunk_size) == [url |-> url, stream |-> FALSE, timeout |-> DOWNLOAD_TIMEOUT, chunk_size |-> chunk_size]
DownloadRequest(url, chunk_size) ==
    [url |-> url, stream |-> TRUE, timeout |-> DOWNLOAD_TIMEOUT, chunk_size |-> chunk_size]

\* mutant of DownloadOnError: the transport's exception is not wrapped
DownloadOnErrorLeaks(location, e) == Raise(e, [fmt |-> "{e}", cause |-> e])

DownloadOnError(location, e) ==
    GNISDataError([fmt |-> "Failed to download data for {location}: {e}",
                   location |-> location, cause |-> e])

DownloadGnisData(location, chunk_size, resp) ==
    LET url == ConstructUrl(location) IN
    IF url.kind = "raise"
    THEN [ret |-> url, requests |-> <<>>]  \* raised before the try statement
    ELSE [ret |-> IF resp.kind = "ok"
                  THEN Return(JoinChunks(resp.chunks))
                  ELSE DownloadOnError(location, resp.cause),
          requests |-> <<DownloadRequest(url.value, chunk_size)>>]

(***************************************************************************)
(* Archives as zipfile reads them.  The bytes of an archive are its member *)
(* records followed by the end-of-central-directory mark; anything else is *)
(* not a ZIP file.  A member is readable ("ok"), stored with a CRC that    *)
(* does not match ("badcrc": zf.read raises BadZipFile) or encrypted       *)
(* ("encrypted": zf.read raises RuntimeError).                             *)
(***************************************************************************)
EOCD == [eocd |-> TRUE]

Junk == [junk |-> TRUE]

Member(name, data, state) == [name |-> name, data |-> data, state |-> state]

IsMember(x) == DOMAIN x = {"name", "data", "state"}

IsZip(bytes) ==
    /\ Len(bytes) >= 1
    /\ bytes[Len(bytes)] = EOCD
    /\ \A i \in 1..(Len(bytes) - 1) : IsMember(bytes[i])

Namelist(bytes) == [i \in 1..(Len(bytes) - 1) |-> bytes[i].name]

\* zf.read(name): the last member stored under that name
ZipRead(bytes, name) ==
    LET last == CHOOSE i \in 1..(Len(bytes) - 1) :
                    /\ bytes[i].name = name
                    /\ \A j \in (i + 1)..(Len(bytes) - 1) : bytes[j].name # name
        m == bytes[last]
    IN  CASE m.state = "ok"        -> Return(m.data)
          [] m.state = "badcrc"    -> Raise("BadZipFile", [fmt |-> "Bad CRC-32 for file {name}", name |-> name])
          [] m.state = "encrypted" -> Raise("RuntimeError", [fmt |-> "File {name} is encrypted, password required for extraction", name |-> name])

(***************************************************************************)
(* extract_gpkg_from_zip                                                   *)
(***************************************************************************)
\* mutant of ExpectedFilename: the member is named after the location as passed
ExpectedFilenameAsPassed(location) ==
    IF Upper(location) = <<"N","A","T","I","O","N","A","L">>
    THEN <<"Gazetteer_National_GPKG.gpkg">>
    ELSE <<"Gazetteer_">> \o location \o <<"_GPKG.gpkg">>

ExpectedFilename(location) ==
    LET loc == Upper(location) IN
    IF loc = <<"N","A","T","I","O","N","A","L">>
    THEN <<"Gazetteer_National_GPKG.gpkg">>
    ELSE <<"Gazetteer_">> \o loc \o <<"_GPKG.gpkg">>

ExtractOnBadZip(e) == GNISDataError([fmt |-> "Invalid ZIP file: {e}", cause |-> e])

ExtractGpkgFromZip(bytes, location) ==
    LET expected_filename == ExpectedFilename(location) IN
    IF ~IsZip(bytes)
    THEN ExtractOnBadZip([fmt |-> "File is not a zip file"])
    ELSE IF \A i \in 1..(Len(bytes) - 1) : Namelist(bytes)[i] # expected_filename
    THEN GNISDataError([fmt |-> "Expected file '{expected_filename}' not found in archive. Available files: {zf.namelist()}",
                        expected_filename |-> expected_filename,
                        namelist |-> Namelist(bytes)])
    ELSE LET r == ZipRead(bytes, expected_filename) IN
         IF r.kind = "raise" /\ r.type = "BadZipFile"
         THEN ExtractOnBadZip(r.msg)
         ELSE r

(***************************************************************************)
(* The table loader (gpd.read_file) is an external collaborator: an        *)
(* attempt either yields the table of the requested layer of the file, or  *)
(* raises.  A layer that is None (or empty) selects the default layer.     *)
(***************************************************************************)
None == "None"

Truthy(layer) == layer # None /\ layer # ""

Table(content, layer) ==
    [content |-> content, layer |-> IF Truthy(layer) THEN layer ELSE "default"]

LoadAttempt(file, content, layer, ok) ==
    [file |-> file, content |-> content, layer |-> layer, ok |-> ok]

LoaderErrors == {"DriverError"}

(***************************************************************************)
(* load_gnis_gdf: the name of the cached file of a location.               *)
(***************************************************************************)
\* mutant of GpkgFilename: the name is built from the location as passed
GpkgFilenameAsPassed(location) == <<"Gazetteer_">> \o location \o <<"_GPKG.gpkg">>

GpkgFilename(location) ==
    LET location_upper == Upper(location) IN
    IF location_upper \in VALID_ALL_LOCATIONS
    THEN <<"Gazetteer_National_GPKG.gpkg">>
    ELSE <<"Gazetteer_">> \o location_upper \o <<"_GPKG.gpkg">>

LoadOnError(e) ==
    GNISDataError([fmt |-> "Failed to load GPKG into GeoDataFrame: {e}", cause |-> e])

OSError(what) == Raise("OSError", [fmt |-> what])

FileNotFoundError(what) == Raise("FileNotFoundError", [fmt |-> what])

(***************************************************************************)
(* Inputs of the pipeline specification.                                   *)
(***************************************************************************)
PipelineLocations == {
    <<"C","A">>, <<"c","a">>, <<"N","a","t","i","o","n","a","l">>,
    <<"u","s">>, <<"Z","Z">> }

Layers == {None, "DomesticNames", "FeatureDescriptionHistory"}

Contents == {<<b>> : b \in 0..MaxByte}

CacheNames == {GpkgFilename(l) : l \in PipelineLocations}

\* what the server may answer in the pipeline: no archive, an empty archive,
\* or an archive of one member
ServerMembers ==
    {Member(ExpectedFilename(l), d, "ok") :
        l \in {<<"C","A">>, <<"N","A","T","I","O","N","A","L">>}, d \in Contents}
    \cup {Member(ExpectedFilename(<<"C","A">>), <<0>>, "encrypted")}

ServerBodies == {<<Junk>>, <<EOCD>>} \cup {<<m, EOCD>> : m \in ServerMembers}

Chunkings(body) ==
    {<<body>>} \cup
    {<<SubSeq(body, 1, k), <<>>, SubSeq(body, k + 1, Len(body))>> : k \in 0..Len(body)}

Responses ==
    {FailedResponse(f) : f \in TransportFailures} \cup
    UNION {{OkResponse(c) : c \in Chunkings(b)} : b \in ServerBodies}

IoOutcomes == {"ok", "open_failed", "write_failed"}

(***************************************************************************)
(* State of the pipeline.                                                  *)
(***************************************************************************)
\* mutant of Exists: the cached file is looked up under a name never written
ExistsNever(name) == FALSE

Exists(name) == name \in DOMAIN cache

\* mutant of Written: the write replaces the whole cache root
WrittenAlone(name, content) == [n \in {name} |-> content]
Written(name, content) ==
    [n \in DOMAIN cache \cup {name} |-> IF n = name THEN content ELSE cache[n]]

\* mutant of Unlinked: the corrupted file stays
UnlinkedNothing(name) == cache

Unlinked(name) == [n \in DOMAIN cache \ {name} |-> cache[n]]

NoCall == [op |-> "none"]

Summary ==
    [op |-> call.op, location |-> call.location, layer |-> call.layer,
     use_cache |-> call.use_cache, empty_at_start |-> call.empty_at_start,
     returned |-> ret.kind = "return", nDownload |-> nDownload, nExtract |-> nExtract,
     nLoads |-> Len(loads)]

InitCall ==
    /\ tmp_file = FALSE
    /\ pc = "idle"
    /\ call = NoCall
    /\ zip_data = <<>>
    /\ gpkg_data = <<>>
    /\ http = <<>>
    /\ nDownload = 0
    /\ nExtract = 0
    /\ loads = <<>>
    /\ path = {}
    /\ ret = NoResult
    /\ prev = NoCall
    /\ table = <<>>
    /\ row = 0
    /\ events = <<>>
    /\ other = NoCall

\* the cache root may be absent, or hold any entries left by earlier runs
Init ==
    /\ rootExists \in BOOLEAN
    /\ cache \in UNION {[S -> Contents] : S \in SUBSET CacheNames}
    /\ (~rootExists => DOMAIN cache = {})
    /\ InitCall

\* the call goes on to its next step
Goes(next) == pc' = next /\ ret' = ret

\* the call ends: it returns or raises r, and its locals are gone
Ends(r) == pc' = "idle" /\ ret' = r

\* mutant of AfterStart: the cache is consulted whatever use_cache says
AfterStartAlwaysCached(use_cache) == "check_cache"

\* lines 182 and 205: only a caching call looks into the cache root
AfterStart(use_cache) == IF use_cache THEN "check_cache" ELSE "download"

(***************************************************************************)
(* load_gnis_gdf, lines 173-188: the call starts; with use_cache the       *)
(* cache root is created (mkdir may fail when the root does not exist).    *)
(***************************************************************************)
LoadStart(location, layer, use_cache, mkdir_ok) ==
    /\ pc = "idle"
    /\ call' = [op |-> "load_gnis_gdf", location |-> location, layer |-> layer,
                use_cache |-> use_cache, empty_at_start |-> DOMAIN cache = {},
                root_existed |-> rootExists]
    /\ tmp_file' = FALSE
    /\ zip_data' = <<>>
    /\ gpkg_data' = <<>>
    /\ http' = <<>>
    /\ nDownload' = 0
    /\ nExtract' = 0
    /\ loads' = <<>>
    /\ path' = {}
    /\ IF use_cache /\ ~(rootExists \/ mkdir_ok)
       THEN rootExists' = rootExists /\ Ends(OSError("mkdir"))
       ELSE /\ rootExists' = (rootExists \/ use_cache)
            /\ pc' = AfterStart(use_cache)
            /\ ret' = NoResult
    /\ UNCHANGED <<cache, exportVars, other>>

\* line 192: gpkg_file.exists()
CheckCache ==
    /\ pc = "check_cache"
    /\ IF Exists(GpkgFilename(call.location))
       THEN Goes("read_cache") /\ path' = path \cup {"entry_found"}
       ELSE Goes("download") /\ path' = path
    /\ UNCHANGED <<rootExists, cache, tmp_file, call, zip_data, gpkg_data,
                   http, nDownload, nExtract, loads, prev, exportVars, other>>

\* mutant of AfterCacheRead: the cached table is never used
AfterCacheReadRefetches(ok) == "unlink_cache"

\* lines 194-203: a cached file that loads is returned; one that fails to
\* load is deleted and the call falls through to the download
AfterCacheRead(ok) == IF ok THEN "return" ELSE "unlink_cache"

\* lines 194-202: the table is read from the cached file; the read fails
\* when another caller removed the file since line 192
ReadCache(ok) ==
    /\ pc = "read_cache"
    /\ LET f == GpkgFilename(call.location)
           found == f \in DOMAIN cache
           content == IF found THEN cache[f] ELSE <<>>
           good == ok /\ found
       IN
       /\ loads' = Append(loads, LoadAttempt(f, content, call.layer, good))
       /\ path' = path \cup {IF good THEN "cache_hit" ELSE "corrupted"}
       /\ IF AfterCacheRead(good) = "return"
          THEN Ends(Return(Table(content, call.layer)))
          ELSE Goes(AfterCacheRead(good))
    /\ UNCHANGED <<rootExists, cache, tmp_file, call, zip_data, gpkg_data,
                   http, nDownload, nExtract, prev, exportVars, other>>

\* line 203: gpkg_file.unlink(), inside the except handler; unlink raises
\* FileNotFoundError when another caller removed the file first
UnlinkCache(unlink_ok) ==
    /\ pc = "unlink_cache"
    /\ IF GpkgFilename(call.location) \notin DOMAIN cache
       THEN /\ cache' = cache
            /\ Ends(FileNotFoundError("unlink"))
            /\ path' = path
       ELSE IF unlink_ok
       THEN /\ cache' = Unlinked(GpkgFilename(call.location))
            /\ Goes("download")
            /\ path' = path \cup {"deleted"}
       ELSE /\ cache' = cache
            /\ Ends(OSError("unlink"))
            /\ path' = path
    /\ UNCHANGED <<rootExists, tmp_file, call, zip_data, gpkg_data,
                   http, nDownload, nExtract, loads, prev, exportVars, other>>

\* line 207: zip_data = download_gnis_data(location)
Download(resp) ==
    /\ pc = "download"
    /\ nDownload' = nDownload + 1
    /\ LET d == DownloadGnisData(call.location, DEFAULT_CHUNK_SIZE, resp) IN
       /\ http' = http \o d.requests
       /\ IF d.ret.kind = "return"
          THEN zip_data' = d.ret.value /\ Goes("extract")
          ELSE zip_data' = zip_data /\ Ends(d.ret)
    /\ UNCHANGED <<rootExists, cache, tmp_file, call, gpkg_data,
                   nExtract, loads, path, prev, exportVars, other>>

\* line 210: gpkg_data = extract_gpkg_from_zip(zip_data, location); zip_data
\* is not used after this line
Extract ==
    /\ pc = "extract"
    /\ nExtract' = nExtract + 1
    /\ zip_data' = <<>>
    /\ LET x == ExtractGpkgFromZip(zip_data, call.location) IN
       IF x.kind = "return"
       THEN gpkg_data' = x.value /\ Goes("save")
       ELSE gpkg_data' = gpkg_data /\ Ends(x)
    /\ UNCHANGED <<rootExists, cache, tmp_file, call, http, nDownload, loads, path, prev, exportVars, other>>

\* lines 213-217: gpkg_file.write_bytes(gpkg_data); a failed write raises
\* before the file is opened or after it was truncated
SaveCache(io) ==
    /\ pc = "save"
    /\ call.use_cache
    /\ LET f == GpkgFilename(call.location) IN
       CASE io = "ok"           -> cache' = Written(f, gpkg_data) /\ Goes("load")
         [] io = "open_failed"  -> cache' = cache /\ Ends(OSError("write_bytes"))
         [] io = "write_failed" -> cache' = Written(f, <<>>) /\ Ends(OSError("write_bytes"))
    /\ UNCHANGED <<rootExists, tmp_file, call, zip_data, gpkg_data,
                   http, nDownload, nExtract, loads, path, prev, exportVars, other>>

\* lines 218-224: the temporary file is created (delete=False) and written,
\* before the try statement
SaveTemp(io) ==
    /\ pc = "save"
    /\ ~call.use_cache
    /\ CASE io = "ok"           -> tmp_file' = TRUE /\ Goes("load")
         [] io = "open_failed"  -> tmp_file' = FALSE /\ Ends(OSError("NamedTemporaryFile"))
         [] io = "write_failed" -> tmp_file' = TRUE /\ Ends(OSError("tmp_file.write"))
    /\ UNCHANGED <<rootExists, cache, call, zip_data, gpkg_data,
                   http, nDownload, nExtract, loads, path, prev, exportVars, other>>

\* the finally clause, lines 240-243: file_to_read.unlink(missing_ok=True)
Cleanup(cleanup_needed) == IF cleanup_needed THEN FALSE ELSE tmp_file

\* mutant of AfterFreshLoad: a failed load downloads again
AfterFreshLoadRetries(ok) == IF ok THEN "return" ELSE "download"

\* lines 228-238: a table that loads is returned; a failure is raised as
\* GNISDataError, without another attempt
AfterFreshLoad(ok) == IF ok THEN "return" ELSE "raise"

\* lines 226-243: the table is read from the file just written, as it is
\* by now: another caller may have removed or rewritten the cached file
LoadFresh(ok, e) ==
    /\ pc = "load"
    /\ LET file_to_read == IF call.use_cache THEN GpkgFilename(call.location) ELSE <<"tmp">>
           cleanup_needed == ~call.use_cache
           found == ~call.use_cache \/ file_to_read \in DOMAIN cache
           content == IF ~call.use_cache THEN gpkg_data
                      ELSE IF found THEN cache[file_to_read] ELSE <<>>
           good == ok /\ found
       IN  /\ loads' = Append(loads, LoadAttempt(file_to_read, content, call.layer, good))
           /\ path' = path \cup {IF good THEN "fresh_loaded" ELSE "fresh_failed"}
           /\ CASE AfterFreshLoad(good) = "return" -> Ends(Return(Table(content, call.layer)))
                [] AfterFreshLoad(good) = "raise"  -> Ends(LoadOnError(e))
                [] OTHER                           -> Goes(AfterFreshLoad(good))
           /\ tmp_file' = Cleanup(cleanup_needed)
    /\ UNCHANGED <<rootExists, cache, call, zip_data, gpkg_data, http, nDownload, nExtract, prev, exportVars, other>>

\* the steps of a call that caches
CachedStep ==
    \/ CheckCache
    \/ \E ok \in BOOLEAN : ReadCache(ok)
    \/ \E ok \in BOOLEAN : UnlinkCache(ok)
    \/ \E resp \in Responses : Download(resp)
    \/ Extract
    \/ \E io \in IoOutcomes : SaveCache(io)
    \/ \E ok \in BOOLEAN, e \in LoaderErrors : LoadFresh(ok, e)

LoadStep == CachedStep \/ \E io \in IoOutcomes : SaveTemp(io)

LoadCall ==
    \E location \in PipelineLocations, layer \in Layers, use_cache \in BOOLEAN,
       mkdir_ok \in BOOLEAN :
        LoadStart(location, layer, use_cache, mkdir_ok) /\ UNCHANGED prev

Next == LoadCall \/ LoadStep

Spec == Init /\ [][Next]_vars

(***************************************************************************)
(* The session view: successive caching calls on one cache root that       *)
(* starts empty, each call seeing the summary of the call before it.       *)
(***************************************************************************)
SessionLocations == {<<"C","A">>, <<"c","a">>, <<"N","a","t","i","o","n","a","l">>}

SessionInit ==
    /\ rootExists \in BOOLEAN
    /\ cache = <<>>
    /\ InitCall

SessionLoadCall ==
    \E location \in SessionLocations, layer \in Layers, mkdir_ok \in BOOLEAN :
        /\ LoadStart(location, layer, TRUE, mkdir_ok)
        /\ prev' = IF call.op = "load_gnis_gdf" THEN Summary ELSE prev

SessionNext == SessionLoadCall \/ CachedStep

SessionSpec == SessionInit /\ [][SessionNext]_vars

(***************************************************************************)
(* The functions view: _construct_url, download_gnis_data and              *)
(* extract_gpkg_from_zip called on their own, on inputs drawn from bounded *)
(* sets: every valid code and every alias in three letter cases, codes     *)
(* that are not valid, and every archive of at most MaxMembers members.    *)
(***************************************************************************)
LowerChar(c) ==
    IF \E i \in 1..Len(UpperLetters) : UpperLetters[i] = c
    THEN LowerLetters[CHOOSE i \in 1..Len(UpperLetters) : UpperLetters[i] = c]
    ELSE c

Lower(s) == [i \in 1..Len(s) |-> LowerChar(s[i])]

MixedCase(s) == [i \in 1..Len(s) |-> IF i = 1 THEN s[i] ELSE LowerChar(s[i])]

InvalidCodes == {
    <<"Z","Z">>, <<"X","X">>, <<>>, <<"C">>, <<"C","A","L">>,
    <<"N","A","T","I","O","N">>, <<"U",".","S",".">> }

FnLocations ==
    UNION {{s, Lower(s), MixedCase(s)} :
              s \in VALID_STATES \cup VALID_ALL_LOCATIONS \cup InvalidCodes}

ExtractLocations ==
    UNION {{s, Lower(s), MixedCase(s)} :
              s \in VALID_ALL_LOCATIONS \cup {<<"C","A">>, <<"Z","Z">>}}

ChunkSizes == {1, DEFAULT_CHUNK_SIZE}

FnMemberNames ==
    {<<"Gazetteer_">> \o <<"C","A">> \o <<"_GPKG.gpkg">>,
     <<"Gazetteer_National_GPKG.gpkg">>, <<"readme.txt">>}

FnMembers ==
    {Member(n, d, s) : n \in FnMemberNames, d \in Contents,
                       s \in {"ok", "badcrc", "encrypted"}}

Archives ==
    {a \o <<EOCD>> : a \in UNION {[1..n -> FnMembers] : n \in 0..MaxMembers}}

NonZips == {<<>>, <<Junk>>, <<Junk, EOCD>>} \cup {<<m>> : m \in FnMembers}

ZipInputs == Archives \cup NonZips

FnCalls ==
    {[op |-> "_construct_url", location |-> l] : l \in FnLocations}
    \cup {[op |-> "download_gnis_data", location |-> l, chunk_size |-> c, resp |-> r] :
             l \in FnLocations, c \in ChunkSizes, r \in Responses}
    \cup {[op |-> "extract_gpkg_from_zip", zip_data |-> z, location |-> l] :
             z \in ZipInputs, l \in ExtractLocations}

\* one call, with its arguments, is about to run
FnInit ==
    /\ rootExists = FALSE
    /\ cache = <<>>
    /\ tmp_file = FALSE
    /\ pc = "called"
    /\ call \in FnCalls
    /\ zip_data = <<>>
    /\ gpkg_data = <<>>
    /\ http = <<>>
    /\ nDownload = 0
    /\ nExtract = 0
    /\ loads = <<>>
    /\ path = {}
    /\ ret = NoResult
    /\ prev = NoCall
    /\ table = <<>>
    /\ row = 0
    /\ events = <<>>
    /\ other = NoCall

\* the call runs, in one step, and leaves the file system alone
FnReturns(r, requests) ==
    /\ pc' = "idle"
    /\ ret' = r
    /\ http' = requests
    /\ UNCHANGED <<rootExists, cache, tmp_file, call, zip_data, gpkg_data,
                   nDownload, nExtract, loads, path, prev, exportVars, other>>

ConstructUrlCall ==
    /\ pc = "called"
    /\ call.op = "_construct_url"
    /\ FnReturns(ConstructUrl(call.location), <<>>)

DownloadCall ==
    /\ pc = "called"
    /\ call.op = "download_gnis_data"
    /\ LET d == DownloadGnisData(call.location, call.chunk_size, call.resp) IN
       FnReturns(d.ret, d.requests)

ExtractCall ==
    /\ pc = "called"
    /\ call.op = "extract_gpkg_from_zip"
    /\ FnReturns(ExtractGpkgFromZip(call.zip_data, call.location), <<>>)

FnNext == ConstructUrlCall \/ DownloadCall \/ ExtractCall

FnSpec == FnInit /\ [][FnNext]_vars

(***************************************************************************)
(* create_enriched_export(location, feature_classes, add_elevation,        *)
(* max_elevation_requests, cache_dir, clear_cache_after, output_path),     *)
(* after section 4.3 of the specification.  Python's None and an integer   *)
(* are kept apart by a tag.                                                *)
(***************************************************************************)
\* most rows the DomesticNames layer has
MaxRows == 3

\* most rows the FeatureDescriptionHistory layer has
MaxHistory == 2

PyNone == [kind |-> "None"]

PyInt(v) == [kind |-> "int", value |-> v]

RATE_LIMIT_PAUSE == "0.1"

Summit == <<"s","u","m","m","i","t">>

Ridge == <<"r","i","d","g","e">>

FeatureClasses == {Summit, Ridge, <<"S","u","m","m","i","t">>}

\* a row of the DomesticNames layer; the coordinates identify the row
DomesticRow(id, class) ==
    [feature_id |-> id, feature_class |-> class,
     prim_lat_dec |-> 40 + id, prim_long_dec |-> 0 - (105 + id)]

\* a row of the FeatureDescriptionHistory layer
HistoryRow(id) == [feature_id |-> id, description |-> <<"d">>, history |-> <<"h", ToString(id)>>]

\* mutant of ClassRequested: the letter case is ignored
ClassRequestedAnyCase(feature_class, feature_classes) ==
    Upper(feature_class) \in {Upper(c) : c \in feature_classes}

\* step 2: the class of a row is one of the requested classes, as written
ClassRequested(feature_class, feature_classes) == feature_class \in feature_classes

RECURSIVE FilterRows(_, _)
FilterRows(rows, feature_classes) ==
    IF rows = <<>> THEN <<>>
    ELSE (IF ClassRequested(Head(rows).feature_class, feature_classes)
          THEN <<Head(rows)>> ELSE <<>>)
         \o FilterRows(Tail(rows), feature_classes)

NoFeaturesFound(feature_classes, location) ==
    GNISDataError([fmt |-> "No features found for feature classes {feature_classes} in {location}",
                   feature_classes |-> feature_classes, location |-> location])

HistoryLoadFailed(e) ==
    GNISDataError([fmt |-> "Failed to load FeatureDescriptionHistory layer: {e}", cause |-> e])

\* steps 3 and 4: a row of the public schema
ExportRow(r, desc_history) ==
    [feature_id |-> r.feature_id, class |-> r.feature_class,
     latitude |-> r.prim_lat_dec, longitude |-> r.prim_long_dec,
     desc_history |-> desc_history]

\* mutant of Unmatched: a row without history is dropped (inner join)
UnmatchedDropped(r) == <<>>

\* step 3: a row without a history row keeps an empty text
Unmatched(r) == <<ExportRow(r, <<>>)>>

RECURSIVE Matched(_, _)
Matched(r, history) ==
    IF history = <<>> THEN <<>>
    ELSE (IF Head(history).feature_id = r.feature_id
          THEN <<ExportRow(r, Head(history).description \o Head(history).history)>>
          ELSE <<>>)
         \o Matched(r, Tail(history))

RECURSIVE LeftJoin(_, _)
LeftJoin(rows, history) ==
    IF rows = <<>> THEN <<>>
    ELSE (IF Matched(Head(rows), history) = <<>>
          THEN Unmatched(Head(rows))
          ELSE Matched(Head(rows), history))
         \o LeftJoin(Tail(rows), history)

WithElevation(r, v) ==
    [feature_id |-> r.feature_id, class |-> r.class,
     latitude |-> r.latitude, longitude |-> r.longitude,
     desc_history |-> r.desc_history, elevation_ft |-> v]

\* mutant of WithinBudget: the limit is passed by one request
WithinBudgetOffByOne(i, max_elevation_requests) ==
    max_elevation_requests = PyNone \/ i <= max_elevation_requests.value + 1

\* step 5: the i-th row is queried unless the limit is used up
WithinBudget(i, max_elevation_requests) ==
    max_elevation_requests = PyNone \/ i <= max_elevation_requests.value

\* step 5: the requests a table of n rows gets
Attempts(n, max_elevation_requests) ==
    IF max_elevation_requests = PyNone \/ n <= max_elevation_requests.value
    THEN n ELSE max_elevation_requests.value

\* mutant of PauseAfter: a pause follows every request
PauseAfterEach(i, attempts) == TRUE

\* step 5: a pause follows every request except the last
PauseAfter(i, attempts) == i < attempts

\* mutant of ElevationOnError: a failed lookup is stored as 0
ElevationOnErrorZero(e) == PyInt(0)

\* step 5: a failed lookup leaves the 'no value' marker
ElevationOnError(e) == PyNone

\* mutant of ClearCalls: the cache is cleared whatever the caller asked
ClearCallsAlways(clear_cache_after, location, cache_dir) ==
    <<[call |-> "clear_cache", location |-> location, cache_dir |-> cache_dir]>>

\* step 7: the eviction, if asked for
ClearCalls(clear_cache_after, location, cache_dir) ==
    IF clear_cache_after
    THEN <<[call |-> "clear_cache", location |-> location, cache_dir |-> cache_dir]>>
    ELSE <<>>

\* the layers the loader may hand to the export: rows 1..n of DomesticNames,
\* and at most one history row for a feature
DomesticTables ==
    UNION {{[i \in 1..n |-> DomesticRow(i, f[i])] : f \in [1..n -> FeatureClasses]} :
              n \in 0..MaxRows}

RECURSIVE HistoryOf(_, _)
HistoryOf(ids, i) ==
    IF i > MaxRows THEN <<>>
    ELSE (IF i \in ids THEN <<HistoryRow(i)>> ELSE <<>>) \o HistoryOf(ids, i + 1)

HistoryTables ==
    {HistoryOf(ids, 1) : ids \in {S \in SUBSET (1..MaxRows) : Cardinality(S) <= MaxHistory}}

RequestedClasses == {{Summit}, {Summit, Ridge}, {<<"s","t","r","e","a","m">>}}

ElevationLimits == {PyNone} \cup {PyInt(k) : k \in 0..MaxRows}

ExportCalls ==
    {[op |-> "create_enriched_export", location |-> <<"C","O">>,
      feature_classes |-> fc, add_elevation |-> ae, max_elevation_requests |-> m,
      cache_dir |-> cd, clear_cache_after |-> cc, output_path |-> out,
      domestic |-> d, history |-> h] :
        fc \in RequestedClasses, ae \in BOOLEAN, m \in ElevationLimits,
        cd \in {None, "D"}, cc \in BOOLEAN, out \in {None, "out.txt"},
        d \in DomesticTables, h \in HistoryTables}

\* get_elevation returns an integer, or raises GNISDataError or ValueError
ElevationOutcomes ==
    {Return(8000),
     GNISDataError([fmt |-> "No elevation available for coordinates ({latitude}, {longitude})."]),
     Raise("ValueError", [fmt |-> "Latitude must be between -90 and 90, got {latitude}"])}

\* one call of create_enriched_export, with its arguments and the layers
\* the loader will hand to it, is about to run
ExportInit ==
    /\ rootExists = FALSE
    /\ cache = <<>>
    /\ tmp_file = FALSE
    /\ pc = "called"
    /\ call \in {c \in ExportCalls : c.add_elevation \/ c.max_elevation_requests = PyNone}
    /\ zip_data = <<>>
    /\ gpkg_data = <<>>
    /\ http = <<>>
    /\ nDownload = 0
    /\ nExtract = 0
    /\ loads = <<>>
    /\ path = {}
    /\ ret = NoResult
    /\ prev = NoCall
    /\ table = <<>>
    /\ row = 0
    /\ events = <<>>
    /\ other = NoCall

pipelineVars == <<rootExists, cache, tmp_file, call, zip_data, gpkg_data,
                  http, nDownload, nExtract, loads, path, prev, other>>

\* a call of load_gnis_gdf by the export, and whether it raised
LoadLayerCall(layer, ok) ==
    [call |-> "load_gnis_gdf", location |-> call.location, layer |-> layer,
     use_cache |-> TRUE, cache_dir |-> call.cache_dir, raised |-> ~ok]

\* step 1: the DomesticNames layer is loaded, with caching
ExportLoadDomestic(ok) ==
    /\ pc = "called"
    /\ events' = Append(events, LoadLayerCall("DomesticNames", ok))
    /\ IF ok THEN Goes("load_history")
             ELSE Ends(GNISDataError([fmt |-> "load_gnis_gdf", layer |-> "DomesticNames"]))
    /\ UNCHANGED <<pipelineVars, table, row>>

\* step 1: the FeatureDescriptionHistory layer is loaded, with caching
ExportLoadHistory(ok, e) ==
    /\ pc = "load_history"
    /\ events' = Append(events, LoadLayerCall("FeatureDescriptionHistory", ok))
    /\ IF ok THEN Goes("filter") ELSE Ends(HistoryLoadFailed(e))
    /\ UNCHANGED <<pipelineVars, table, row>>

\* steps 2 to 4: filter, join, rename
ExportFilterJoin ==
    /\ pc = "filter"
    /\ LET filtered == FilterRows(call.domestic, call.feature_classes) IN
       IF filtered = <<>>
       THEN table' = table /\ Ends(NoFeaturesFound(call.feature_classes, call.location))
       ELSE /\ table' = LeftJoin(filtered, call.history)
            /\ Goes(IF call.add_elevation THEN "elevation" ELSE "write")
    /\ UNCHANGED <<pipelineVars, row, events>>

\* step 5: the next row of the table gets its elevation
ExportElevation(outcome) ==
    /\ pc = "elevation"
    /\ row < Len(table)
    /\ LET i == row + 1
           r == table[i]
           attempts == Attempts(Len(table), call.max_elevation_requests)
       IN  /\ row' = i
           /\ IF WithinBudget(i, call.max_elevation_requests)
              THEN /\ table' = [table EXCEPT ![i] =
                                   WithElevation(r, IF outcome.kind = "return"
                                                    THEN PyInt(outcome.value)
                                                    ELSE ElevationOnError(outcome))]
                   /\ events' = events
                         \o <<[call |-> "get_elevation", latitude |-> r.latitude,
                               longitude |-> r.longitude, row |-> i,
                               raised |-> outcome.kind = "raise"]>>
                         \o (IF PauseAfter(i, attempts)
                             THEN <<[call |-> "time.sleep", seconds |-> RATE_LIMIT_PAUSE]>>
                             ELSE <<>>)
              ELSE /\ table' = [table EXCEPT ![i] = WithElevation(r, PyNone)]
                   /\ events' = events
    /\ Goes("elevation")
    /\ UNCHANGED pipelineVars

\* step 5: the loop is over
ExportElevationDone ==
    /\ pc = "elevation"
    /\ row = Len(table)
    /\ Goes("write")
    /\ UNCHANGED <<pipelineVars, exportVars, other>>

\* step 6: the table is written if a path was given
ExportWrite(ok) ==
    /\ pc = "write"
    /\ IF call.output_path = None
       THEN events' = events /\ Goes("clear")
       ELSE /\ events' = Append(events, [call |-> "to_csv", path |-> call.output_path,
                                         sep |-> "|", index |-> FALSE])
            /\ IF ok THEN Goes("clear") ELSE Ends(OSError("to_csv"))
    /\ UNCHANGED <<pipelineVars, table, row>>

\* step 7 and the return
ExportClear ==
    /\ pc = "clear"
    /\ events' = events \o ClearCalls(call.clear_cache_after, call.location, call.cache_dir)
    /\ Ends(Return(table))
    /\ UNCHANGED <<pipelineVars, table, row>>

ExportNext ==
    \/ \E ok \in BOOLEAN : ExportLoadDomestic(ok)
    \/ \E ok \in BOOLEAN, e \in LoaderErrors : ExportLoadHistory(ok, e)
    \/ ExportFilterJoin
    \/ \E outcome \in ElevationOutcomes : ExportElevation(outcome)
    \/ ExportElevationDone
    \/ \E ok \in BOOLEAN : ExportWrite(ok)
    \/ ExportClear

ExportSpec == ExportInit /\ [][ExportNext]_vars

(***************************************************************************)
(* File names as text.  A name is kept as a sequence of pieces; Chars      *)
(* spells it out character by character, and PathLess is the order in      *)
(* which sorted() puts two paths of one directory (by code point).         *)
(***************************************************************************)
Spell(piece) ==
    CASE piece = "Gazetteer_" -> <<"G","a","z","e","t","t","e","e","r","_">>
      [] piece = "_GPKG.gpkg" -> <<"_","G","P","K","G",".","g","p","k","g">>
      [] piece = "Gazetteer_National_GPKG.gpkg" ->
            <<"G","a","z","e","t","t","e","e","r","_","N","a","t","i","o","n","a","l",
              "_","G","P","K","G",".","g","p","k","g">>
      [] piece = "notes.txt" -> <<"n","o","t","e","s",".","t","x","t">>
      [] OTHER -> <<piece>>

RECURSIVE Chars(_)
Chars(name) == IF name = <<>> THEN <<>> ELSE Spell(Head(name)) \o Chars(Tail(name))

\* the characters of the names, in code point order
Alphabet == <<".">> \o UpperLetters \o <<"_">> \o LowerLetters

Ord(c) == CHOOSE i \in 1..Len(Alphabet) : Alphabet[i] = c

RECURSIVE TextLess(_, _)
TextLess(a, b) ==
    IF b = <<>> THEN FALSE
    ELSE IF a = <<>> THEN TRUE
    ELSE IF Head(a) = Head(b) THEN TextLess(Tail(a), Tail(b))
    ELSE Ord(Head(a)) < Ord(Head(b))

PathLess(a, b) == TextLess(Chars(a), Chars(b))

\* cache_path.glob("*.gpkg")
GlobGpkg(names) ==
    {n \in names :
        LET c == Chars(n) IN
        Len(c) >= 5 /\ SubSeq(c, Len(c) - 4, Len(c)) = <<".","g","p","k","g">>}

(***************************************************************************)
(* clear_cache(location, cache_dir).  The call is given the entries its    *)
(* unlink calls manage to delete before one of them fails, if any does.    *)
(***************************************************************************)
\* mutant of ClearFilename: the national aliases get a file of their own
ClearFilenamePerAlias(location) ==
    LET location_upper == Upper(location) IN
    IF location_upper = <<"N","A","T","I","O","N","A","L">>
    THEN <<"Gazetteer_National_GPKG.gpkg">>
    ELSE <<"Gazetteer_">> \o location_upper \o <<"_GPKG.gpkg">>

\* mutant of ClearFilename: the name is built from the location as passed
ClearFilenameAsPassed(location) == IF location \in VALID_ALL_LOCATIONS THEN <<"Gazetteer_National_GPKG.gpkg">> ELSE <<"Gazetteer_">> \o location \o <<"_GPKG.gpkg">>

\* lines 281-286: the file of a location
ClearFilename(location) ==
    LET location_upper == Upper(location) IN
    IF location_upper \in VALID_ALL_LOCATIONS
    THEN <<"Gazetteer_National_GPKG.gpkg">>
    ELSE <<"Gazetteer_">> \o location_upper \o <<"_GPKG.gpkg">>

\* an optional text argument: None, or a string
PyStr(text) == [kind |-> "str", value |-> text]

\* line 281: if location
HasLocation(location) == location # PyNone /\ location.value # <<>>

\* mutant of ClearTargets: the location's file is unlinked without a look
ClearTargetsUnchecked(root, files, location) ==
    IF HasLocation(location)
    THEN {ClearFilename(location.value)}
    ELSE GlobGpkg(DOMAIN files)

\* lines 277-298: the files clear_cache sets out to unlink
ClearTargets(root, files, location) ==
    IF ~root THEN {}
    ELSE IF HasLocation(location)
    THEN {ClearFilename(location.value)} \cap DOMAIN files
    ELSE GlobGpkg(DOMAIN files)

\* the result of clear_cache and the files it leaves, when its unlink calls
\* delete the files in done and fail (if done is not all of them) on another
ClearCache(root, files, location, done) ==
    LET targets == ClearTargets(root, files, location)
        gone == targets \cap done
    IN  [ret |-> IF targets \subseteq done THEN Return(None) ELSE OSError("unlink"),
         files |-> [n \in DOMAIN files \ gone |-> files[n]]]

(***************************************************************************)
(* get_cache_info(cache_dir).  A quotient is kept as numerator and         *)
(* denominator; the modification time of a file is left out.               *)
(***************************************************************************)
BYTES_PER_MB == 1048576

Quotient(n, d) == [num |-> n, den |-> d]

\* mutant of SortedPaths: the paths come as glob yields them, here in
\* descending order
RECURSIVE UnsortedPaths(_)
UnsortedPaths(names) ==
    IF names = {} THEN <<>>
    ELSE LET last == CHOOSE x \in names : \A y \in names : x = y \/ PathLess(y, x)
         IN  <<last>> \o UnsortedPaths(names \ {last})

\* line 340: sorted(cache_path.glob("*.gpkg"))
RECURSIVE SortedPaths(_)
SortedPaths(names) ==
    IF names = {} THEN <<>>
    ELSE LET first == CHOOSE x \in names : \A y \in names : x = y \/ PathLess(x, y)
         IN  <<first>> \o SortedPaths(names \ {first})

RECURSIVE TotalSize(_, _)
TotalSize(paths, files) ==
    IF paths = <<>> THEN 0
    ELSE Len(files[Head(paths)]) + TotalSize(Tail(paths), files)

GetCacheInfo(root, files, cache_dir) ==
    IF ~root
    THEN [cache_dir |-> cache_dir, cached_files |-> <<>>, total_size_mb |-> Quotient(0, 1)]
    ELSE LET paths == SortedPaths(GlobGpkg(DOMAIN files)) IN
         [cache_dir |-> cache_dir,
          cached_files |-> [i \in 1..Len(paths) |->
                              [filename |-> paths[i],
                               size_mb |-> Quotient(Len(files[paths[i]]), BYTES_PER_MB),
                               path |-> <<cache_dir>> \o paths[i]]],
          total_size_mb |-> Quotient(TotalSize(paths, files), BYTES_PER_MB)]

(***************************************************************************)
(* The cache root under clear_cache and get_cache_info: any files may lie  *)
(* under the root, cached GPKG files of any size and others.               *)
(***************************************************************************)
CacheRootNames == CacheNames \cup {<<"notes.txt">>}

CacheRootContents == {<<>>, <<0, 0>>} \cup Contents

ClearLocations ==
    {PyNone, PyStr(<<>>)} \cup
    {PyStr(l) : l \in {<<"C","A">>, <<"c","a">>, <<"N","a","t","i","o","n","a","l">>,
                       <<"u","s">>, <<"N","Y">>}}

CacheInit ==
    /\ rootExists \in BOOLEAN
    /\ cache \in UNION {[S -> CacheRootContents] : S \in SUBSET CacheRootNames}
    /\ (~rootExists => DOMAIN cache = {})
    /\ (<<"notes.txt">> \in DOMAIN cache => cache[<<"notes.txt">>] = <<0, 0>>)
    /\ InitCall

ClearCacheCall(location, done) ==
    /\ pc = "idle"
    /\ call' = [op |-> "clear_cache", location |-> location, cache_dir |-> "D",
                done |-> done, root_existed |-> rootExists, cache_before |-> cache]
    /\ LET c == ClearCache(rootExists, cache, location, done) IN
       /\ cache' = c.files
       /\ ret' = c.ret
    /\ UNCHANGED <<rootExists, tmp_file, pc, zip_data, gpkg_data, http, nDownload,
                   nExtract, loads, path, prev, exportVars, other>>

GetCacheInfoCall ==
    /\ pc = "idle"
    /\ call' = [op |-> "get_cache_info", cache_dir |-> "D",
                root_existed |-> rootExists, cache_before |-> cache]
    /\ ret' = Return(GetCacheInfo(rootExists, cache, "D"))
    /\ UNCHANGED <<rootExists, cache, tmp_file, pc, zip_data, gpkg_data, http,
                   nDownload, nExtract, loads, path, prev, exportVars, other>>

CacheNext ==
    \/ \E location \in ClearLocations, done \in SUBSET GlobGpkg(DOMAIN cache) :
          ClearCacheCall(location, done)
    \/ GetCacheInfoCall

CacheSpec == CacheInit /\ [][CacheNext]_vars

(***************************************************************************)
(* get_elevation: one query of the USGS Elevation Point Query Service.     *)
(* Coordinates are whole degrees; an elevation the service reports is a    *)
(* rational number num/den.                                                *)
(***************************************************************************)
ELEVATION_SERVICE_URL == "https://epqs.nationalmap.gov/v1/json"

ELEVATION_TIMEOUT == 10

NO_DATA_SENTINEL == -1000000

DEFAULT_UNITS == "Feet"

ValueError(m) == Raise("ValueError", m)

\* lo <= x <= hi, both ends included
\* mutant of InRange: the ends are left out
InRangeExclusive(lo, x, hi) == lo < x /\ x < hi
InRange(lo, x, hi) == lo <= x /\ x <= hi

\* the exception the argument checks raise, or NoResult for valid arguments
ValidateElevationArgs(latitude, longitude, units) ==
    IF ~InRange(-90, latitude, 90)
    THEN ValueError([fmt |-> "Latitude must be between -90 and 90, got {latitude}",
                     latitude |-> latitude])
    ELSE IF ~InRange(-180, longitude, 180)
    THEN ValueError([fmt |-> "Longitude must be between -180 and 180, got {longitude}",
                     longitude |-> longitude])
    ELSE IF units \notin {"Feet", "Meters"}
    THEN ValueError([fmt |-> "Units must be 'Feet' or 'Meters', got {units}",
                     units |-> units])
    ELSE NoResult

\* requests.get(ELEVATION_SERVICE_URL, params=params, timeout=10)
\* mutant of ElevationRequest: x and y change places
ElevationRequestSwapped(latitude, longitude, units) == [url |-> ELEVATION_SERVICE_URL, params |-> [x |-> latitude, y |-> longitude, units |-> units, output |-> "json"], timeout |-> ELEVATION_TIMEOUT]
ElevationRequest(latitude, longitude, units) ==
    [url |-> ELEVATION_SERVICE_URL,
     params |-> [x |-> longitude, y |-> latitude, units |-> units, output |-> "json"],
     timeout |-> ELEVATION_TIMEOUT]

\* round(): the nearest integer of num/den (den > 0), a tie going to the
\* even neighbour
\* mutant of RoundHalfEven: a tie goes away from zero
RoundHalfAway(num, den) == IF num >= 0 THEN (2 * num + den) \div (2 * den) ELSE 0 - ((2 * (0 - num) + den) \div (2 * den))
\* mutant of RoundHalfEven: the fraction is cut off
Truncated(num, den) == IF num >= 0 THEN num \div den ELSE 0 - ((0 - num) \div den)
RoundHalfEven(num, den) ==
    LET q == num \div den
        r == num % den
    IN  IF 2 * r < den THEN q
        ELSE IF 2 * r > den THEN q + 1
        ELSE IF q % 2 = 0 THEN q ELSE q + 1

\* elevation_value is None or elevation_value == -1000000
\* mutant of IsNoData: a zero counts as no data
IsNoDataFalsy(v) == v.type = "null" \/ (v.type = "number" /\ v.num = 0) \/ (v.type = "number" /\ v.num = NO_DATA_SENTINEL * v.den)
IsNoData(v) ==
    \/ v.type = "null"
    \/ v.type = "number" /\ v.num = NO_DATA_SENTINEL * v.den

\* an exception raised inside the try block, with the class the except
\* clauses match it by
Thrown(base, cause) == [kind |-> "thrown", base |-> base, cause |-> cause]

\* int(round(elevation_value)) for each type of JSON value
RoundValue(v) ==
    CASE v.type = "number" -> Return(RoundHalfEven(v.num, v.den))
      [] v.type = "bool"   -> Return(IF v.value THEN 1 ELSE 0)
      [] v.type = "nan"    -> Thrown("ValueError", "ValueError")
      [] v.type = "inf"    -> Thrown("Exception", "OverflowError")
      [] OTHER             -> Thrown("TypeError", "TypeError")

\* the body of the try block once response.json() has returned data
ElevationOfData(latitude, longitude, data) ==
    IF data.shape \in {"null", "number"}
    THEN Thrown("TypeError", "TypeError")
    ELSE IF ~data.has_value
    THEN GNISDataError([fmt |-> "No elevation data returned for coordinates ({latitude}, {longitude}). Response: {data}",
                        latitude |-> latitude, longitude |-> longitude])
    ELSE IF data.shape # "object"
    THEN Thrown("TypeError", "TypeError")
    ELSE IF IsNoData(data.value)
    THEN GNISDataError([fmt |-> "No elevation available for coordinates ({latitude}, {longitude}). Location may be outside coverage area or over water.",
                        latitude |-> latitude, longitude |-> longitude])
    ELSE RoundValue(data.value)

\* the except clauses, in their order
\* mutant of GetElevationOnError: only transport errors are wrapped
GetElevationOnErrorLeaks(base, cause) == IF base = "RequestException" THEN GNISDataError([fmt |-> "Failed to query elevation service: {e}", e |-> cause]) ELSE Raise(base, [e |-> cause])
GetElevationOnError(base, cause) ==
    IF base = "RequestException"
    THEN GNISDataError([fmt |-> "Failed to query elevation service: {e}", e |-> cause])
    ELSE IF base \in {"KeyError", "ValueError", "TypeError"}
    THEN GNISDataError([fmt |-> "Failed to parse elevation response: {e}", e |-> cause])
    ELSE GNISDataError([fmt |-> "Failed to query elevation service: {e}", e |-> cause])

\* get_elevation: the result and the HTTP requests issued, given the
\* service's response
GetElevation(latitude, longitude, units, resp) ==
    LET invalid == ValidateElevationArgs(latitude, longitude, units) IN
    IF invalid # NoResult
    THEN [ret |-> invalid, requests |-> <<>>]
    ELSE LET out == IF resp.kind = "error"
                    THEN Thrown(resp.base, resp.cause)
                    ELSE ElevationOfData(latitude, longitude, resp.data)
         IN  [ret |-> IF out.kind = "thrown"
                      THEN GetElevationOnError(out.base, out.cause)
                      ELSE out,
              requests |-> <<ElevationRequest(latitude, longitude, units)>>]

(***************************************************************************)
(* The elevation service is an external collaborator: a response says      *)
(* where the query failed, or carries the JSON document the service sent.  *)
(* requests' JSONDecodeError is a RequestException in recent releases and  *)
(* a plain ValueError in older ones.                                       *)
(***************************************************************************)
ElevationFailures == {
    [kind |-> "error", at |-> "requests.get", base |-> "RequestException", cause |-> "ConnectionError"],
    [kind |-> "error", at |-> "requests.get", base |-> "RequestException", cause |-> "Timeout"],
    [kind |-> "error", at |-> "raise_for_status", base |-> "RequestException", cause |-> "HTTPError"],
    [kind |-> "error", at |-> "json", base |-> "RequestException", cause |-> "JSONDecodeError"],
    [kind |-> "error", at |-> "json", base |-> "ValueError", cause |-> "JSONDecodeError"] }

JsonNumber(num, den) == [type |-> "number", num |-> num, den |-> den]

\* whole numbers, halves and tenths around zero, the sentinel, and the
\* elevations of the documentation
JsonNumbers ==
    {JsonNumber(n, 1) : n \in {-282, -1, 0, 1, 8000, NO_DATA_SENTINEL}}
    \cup {JsonNumber(n, 2) : n \in {-3, -1, 1, 3, 5, 2469, 2471, 2 * NO_DATA_SENTINEL}}
    \cup {JsonNumber(n, 10) : n \in {-6, -5, -4, 4, 5, 6, 12344, 12346, 145053}}

JsonValues ==
    JsonNumbers
    \cup {[type |-> "null"], [type |-> "string"], [type |-> "array"],
          [type |-> "nan"], [type |-> "inf"]}
    \cup {[type |-> "bool", value |-> b] : b \in BOOLEAN}

JsonDocuments ==
    {[shape |-> "object", has_value |-> TRUE, value |-> v] : v \in JsonValues}
    \cup {[shape |-> "object", has_value |-> FALSE]}
    \cup {[shape |-> s, has_value |-> h] : s \in {"array", "string"}, h \in BOOLEAN}
    \cup {[shape |-> "null"], [shape |-> "number"]}

ElevationResponses ==
    ElevationFailures \cup {[kind |-> "json", data |-> d] : d \in JsonDocuments}

Latitudes == {-91, -90, 0, 36, 90, 91}

Longitudes == {-181, -180, -118, 0, 180, 181}

\* the units argument, or "<omitted>" when the caller leaves it out
UnitsArgs == {"<omitted>", "Feet", "Meters", "feet", "Yards"}

ElevationCalls ==
    {[op |-> "get_elevation", latitude |-> la, longitude |-> lo, units |-> u,
      resp |-> r] :
        la \in Latitudes, lo \in Longitudes, u \in UnitsArgs, r \in ElevationResponses}

ElevationInit ==
    /\ rootExists = FALSE
    /\ cache = <<>>
    /\ tmp_file = FALSE
    /\ pc = "called"
    /\ call \in ElevationCalls
    /\ zip_data = <<>>
    /\ gpkg_data = <<>>
    /\ http = <<>>
    /\ nDownload = 0
    /\ nExtract = 0
    /\ loads = <<>>
    /\ path = {}
    /\ ret = NoResult
    /\ prev = NoCall
    /\ table = <<>>
    /\ row = 0
    /\ events = <<>>
    /\ other = NoCall

GetElevationCall ==
    /\ pc = "called"
    /\ call.op = "get_elevation"
    /\ LET units == IF call.units = "<omitted>" THEN DEFAULT_UNITS ELSE call.units
           e == GetElevation(call.latitude, call.longitude, units, call.resp)
       IN  FnReturns(e.ret, e.requests)

ElevationSpec == ElevationInit /\ [][GetElevationCall]_vars

(***************************************************************************)
(* clear_cache and then load_gnis_gdf(use_cache=True), called one after    *)
(* the other on the same cache root; the load remembers what the           *)
(* clear_cache call before it did.                                         *)
(***************************************************************************)
ClearSummary ==
    [op |-> "clear_cache", location |-> call.location,
     returned |-> ret.kind = "return",
     removed |-> DOMAIN call.cache_before \ DOMAIN cache]

\* the first call of the session
ClearLoadClear ==
    /\ call = NoCall
    /\ \E location \in {PyNone} \cup {PyStr(l) : l \in PipelineLocations} :
          \E done \in SUBSET ClearTargets(rootExists, cache, location) :
             ClearCacheCall(location, done)

\* the call that directly follows it
ClearLoadLoad ==
    /\ call.op = "clear_cache"
    /\ \E location \in PipelineLocations, layer \in Layers, mkdir_ok \in BOOLEAN :
          /\ LoadStart(location, layer, TRUE, mkdir_ok)
          /\ prev' = ClearSummary

ClearLoadNext == ClearLoadClear \/ ClearLoadLoad \/ CachedStep

ClearLoadSpec == Init /\ [][ClearLoadNext]_vars

(***************************************************************************)
(* Two callers on the same cache root, each making one call for the same   *)
(* location: load_gnis_gdf(L, use_cache=True) next to a second such call   *)
(* or next to clear_cache(L).  The code takes no lock, so the callers'     *)
(* file-system steps interleave freely.  The variables of the pipeline     *)
(* belong to the caller taking the next step; `other` holds the second     *)
(* caller's.  Every file-system call succeeds unless the file is missing.  *)
(***************************************************************************)
RaceLocation == <<"C","A">>

Caller ==
    [pc |-> pc, call |-> call, ret |-> ret, tmp_file |-> tmp_file,
     zip_data |-> zip_data, gpkg_data |-> gpkg_data, http |-> http,
     nDownload |-> nDownload, nExtract |-> nExtract, loads |-> loads, path |-> path]

NotCalledYet ==
    [pc |-> "idle", call |-> NoCall, ret |-> NoResult, tmp_file |-> FALSE,
     zip_data |-> <<>>, gpkg_data |-> <<>>, http |-> <<>>,
     nDownload |-> 0, nExtract |-> 0, loads |-> <<>>, path |-> {}]

\* the server answers with the location's archive, or the transfer times out
RaceResponses ==
    {FailedResponse([at |-> "requests.get", cause |-> "Timeout"]),
     OkResponse(<<<<Member(ExpectedFilename(RaceLocation), <<1>>, "ok"), EOCD>>>>)}

RaceInit ==
    /\ rootExists \in BOOLEAN
    /\ cache \in {<<>>} \cup {[n \in {GpkgFilename(RaceLocation)} |-> c] : c \in Contents}
    /\ (~rootExists => DOMAIN cache = {})
    /\ tmp_file = FALSE
    /\ pc = "idle"
    /\ call = NoCall
    /\ zip_data = <<>>
    /\ gpkg_data = <<>>
    /\ http = <<>>
    /\ nDownload = 0
    /\ nExtract = 0
    /\ loads = <<>>
    /\ path = {}
    /\ ret = NoResult
    /\ prev = NoCall
    /\ table = <<>>
    /\ row = 0
    /\ events = <<>>
    /\ other = NotCalledYet

\* the scheduler lets the second caller take the next steps
Switch ==
    /\ other.pc # "idle" \/ other.call = NoCall
    /\ other' = Caller
    /\ pc' = other.pc
    /\ call' = other.call
    /\ ret' = other.ret
    /\ tmp_file' = other.tmp_file
    /\ zip_data' = other.zip_data
    /\ gpkg_data' = other.gpkg_data
    /\ http' = other.http
    /\ nDownload' = other.nDownload
    /\ nExtract' = other.nExtract
    /\ loads' = other.loads
    /\ path' = other.path
    /\ UNCHANGED <<rootExists, cache, prev, exportVars>>

RaceLoadStart ==
    /\ call = NoCall
    /\ LoadStart(RaceLocation, None, TRUE, TRUE)
    /\ UNCHANGED prev

\* clear_cache, lines 272-279: without a cache root the call returns
ClearStart ==
    /\ pc = "idle"
    /\ call = NoCall
    /\ other.call # NoCall => other.call.op = "load_gnis_gdf"
    /\ call' = [op |-> "clear_cache", location |-> PyStr(RaceLocation), cache_dir |-> "D"]
    /\ IF rootExists THEN pc' = "clear_exists" /\ ret' = NoResult
                     ELSE Ends(Return(None))
    /\ UNCHANGED <<rootExists, cache, tmp_file, zip_data, gpkg_data, http, nDownload,
                   nExtract, loads, path, prev, exportVars, other>>

\* clear_cache, lines 288-293: file_to_delete.exists()
ClearExists ==
    /\ pc = "clear_exists"
    /\ IF ClearFilename(call.location.value) \in DOMAIN cache
       THEN Goes("clear_unlink")
       ELSE Ends(Return(None))
    /\ UNCHANGED <<rootExists, cache, tmp_file, call, zip_data, gpkg_data, http,
                   nDownload, nExtract, loads, path, prev, exportVars, other>>

\* clear_cache, line 290: file_to_delete.unlink()
ClearUnlink ==
    /\ pc = "clear_unlink"
    /\ LET f == ClearFilename(call.location.value) IN
       IF f \in DOMAIN cache
       THEN cache' = [n \in DOMAIN cache \ {f} |-> cache[n]] /\ Ends(Return(None))
       ELSE cache' = cache /\ Ends(FileNotFoundError("unlink"))
    /\ UNCHANGED <<rootExists, tmp_file, call, zip_data, gpkg_data, http,
                   nDownload, nExtract, loads, path, prev, exportVars, other>>

RaceNext ==
    \/ Switch
    \/ RaceLoadStart
    \/ ClearStart
    \/ ClearExists
    \/ ClearUnlink
    \/ CheckCache
    \/ \E ok \in BOOLEAN : ReadCache(ok)
    \/ UnlinkCache(TRUE)
    \/ \E resp \in RaceResponses : Download(resp)
    \/ Extract
    \/ SaveCache("ok")
    \/ \E ok \in BOOLEAN, e \in LoaderErrors : LoadFresh(ok, e)

RaceSpec == RaceInit /\ [][RaceNext]_vars

\* the scheduling of a call: single-threaded code takes its next step, and
\* every HTTP request carries a timeout
FairSpec == Spec /\ WF_vars(LoadStep)

(***************************************************************************)
(* Vocabulary of the claims.                                               *)
(***************************************************************************)
LoadEnded == pc = "idle" /\ call.op = "load_gnis_gdf"

Returned == ret.kind = "return"

RaisedGNISDataError == ret.kind = "raise" /\ ret.type = "GNISDataError"

ValidLocation(location) == Upper(location) \in VALID_STATES \cup VALID_ALL_LOCATIONS

CacheFile == GpkgFilename(call.location)

AllLoadsOk == \A i \in 1..Len(loads) : loads[i].ok

RequestedLayer == IF call.layer = None \/ call.layer = "" THEN "default" ELSE call.layer

(***************************************************************************)
(* C1: a caching call that finds an entry for the location and loads the   *)
(* requested layer from it returns that table, calls neither the download  *)
(* nor the extraction, issues no HTTP request and leaves the entry as it   *)
(* was read.                                                               *)
(***************************************************************************)
C1_CacheHitSkipsDownload ==
    (LoadEnded /\ call.use_cache /\ "entry_found" \in path /\ Len(loads) >= 1 /\ loads[1].ok)
    => /\ Returned
       /\ ret.value.content = loads[1].content
       /\ ret.value.layer = RequestedLayer
       /\ loads[1].file = CacheFile
       /\ Len(loads) = 1
       /\ nDownload = 0
       /\ nExtract = 0
       /\ http = <<>>
       /\ CacheFile \in DOMAIN cache
       /\ cache[CacheFile] = loads[1].content

C1_Witness ==
    /\ LoadEnded /\ call.use_cache /\ "cache_hit" \in path
    /\ call.layer = "DomesticNames"
    /\ Returned

(***************************************************************************)
(* C2, as claimed: from an empty cache, two successive calls for the same  *)
(* location with use_cache=True that both return a table perform in total  *)
(* exactly one download, one extraction and two table loads.               *)
(***************************************************************************)
TwoCachedCallsReturned ==
    /\ LoadEnded /\ call.use_cache /\ Returned
    /\ prev.op = "load_gnis_gdf" /\ prev.use_cache /\ prev.returned
    /\ prev.empty_at_start
    /\ prev.location = call.location

OneRoundTripInTotal ==
    /\ prev.nDownload + nDownload = 1
    /\ prev.nExtract + nExtract = 1
    /\ prev.nLoads + Len(loads) = 2

C3_CorruptedEntryRegenerated ==
    /\ ("corrupted" \in path /\ pc \in {"download", "extract", "save"})
       => CacheFile \notin DOMAIN cache
    /\ ("corrupted" \in path /\ pc \in {"extract", "save", "load"})
       => nDownload = 1
    /\ ("corrupted" \in path /\ pc \in {"save", "load"})
       => nExtract = 1
    /\ (LoadEnded /\ "deleted" \in path)
       => nDownload = 1 /\ nExtract <= 1
    /\ (LoadEnded /\ "corrupted" \in path /\ Returned)
       => /\ nDownload = 1
          /\ nExtract = 1
          /\ Len(loads) = 2
          /\ ~loads[1].ok /\ loads[2].ok
          /\ loads[2].file = CacheFile
          /\ loads[2].content = gpkg_data
          /\ ret.value.content = gpkg_data
          /\ ret.value.layer = RequestedLayer
          /\ CacheFile \in DOMAIN cache
          /\ cache[CacheFile] = gpkg_data

C3_Witness ==
    /\ LoadEnded /\ "corrupted" \in path /\ Returned
    /\ loads[1].content # gpkg_data
    /\ cache[CacheFile] = gpkg_data

(***************************************************************************)
(* C4: every call of load_gnis_gdf ends, and on every path it calls the    *)
(* download at most once, the extraction at most once and the table loader *)
(* at most twice; a load failure of the freshly downloaded bytes ends the  *)
(* call with GNISDataError.                                                *)
(***************************************************************************)
C4_Bounds ==
    /\ nDownload <= 1
    /\ nExtract <= 1
    /\ Len(http) <= 1
    /\ Len(loads) <= 2
    /\ "fresh_failed" \in path
       => /\ pc = "idle"
          /\ RaisedGNISDataError
          /\ ret.msg.fmt = "Failed to load GPKG into GeoDataFrame: {e}"

C4_TerminatesWithinBounds == [](C4_Bounds) /\ ((pc # "idle") ~> (pc = "idle"))

C4_Witness ==
    /\ LoadEnded /\ "corrupted" \in path /\ "fresh_failed" \in path
    /\ Len(loads) = 2 /\ nDownload = 1 /\ nExtract = 1

(***************************************************************************)
(* C5, as claimed (file-system errors aside): load_gnis_gdf with a         *)
(* location that is neither a valid code nor a national alias raises       *)
(* GNISDataError and issues no HTTP request, whatever the cache root       *)
(* contains.                                                               *)
(***************************************************************************)
C5_InvalidLocationRaises ==
    (LoadEnded /\ ~ValidLocation(call.location)
        /\ ~(ret.kind = "raise" /\ ret.type = "OSError"))
    => RaisedGNISDataError /\ http = <<>>

(***************************************************************************)
(* C6, as claimed: when a call with use_cache=False ends, its temporary    *)
(* file does not exist, on every exit path.                                *)
(***************************************************************************)
C6_TempFileReleased == (LoadEnded /\ ~call.use_cache) => ~tmp_file

(***************************************************************************)
(* C7, as claimed: when a call with use_cache=True ends by raising         *)
(* GNISDataError, the cache root holds no entry for its location.          *)
(***************************************************************************)
C7_NoEntryAfterError ==
    (LoadEnded /\ call.use_cache /\ RaisedGNISDataError) => CacheFile \notin DOMAIN cache

(***************************************************************************)
(* C8, as claimed: for every national alias, in any letter case, the       *)
(* expected member is the national one, so that extract_gpkg_from_zip      *)
(* returns from an archive what it returns for 'National'.                 *)
(***************************************************************************)
ExtractedForNational ==
    ExtractGpkgFromZip(call.zip_data, <<"N","a","t","i","o","n","a","l">>)

C8_AliasesExtractAsNational ==
    (pc = "idle" /\ call.op = "extract_gpkg_from_zip"
        /\ Upper(call.location) \in VALID_ALL_LOCATIONS
        /\ ExtractedForNational.kind = "return")
    => ret = ExtractedForNational

(***************************************************************************)
(* C9: download_gnis_data with a valid location raises every failure of    *)
(* the transfer as GNISDataError, with the location and the cause in the   *)
(* message, and raises nothing else.                                       *)
(***************************************************************************)
C9_TransportFailureWrapped ==
    (pc = "idle" /\ call.op = "download_gnis_data" /\ ValidLocation(call.location))
    => /\ ret.kind = "raise" => ret.type = "GNISDataError"
       /\ call.resp.kind = "error"
          => /\ RaisedGNISDataError
             /\ ret.msg.fmt = "Failed to download data for {location}: {e}"
             /\ ret.msg.location = call.location
             /\ ret.msg.cause = call.resp.cause
       /\ call.resp.kind = "ok" => Returned

C9_Witness ==
    /\ pc = "idle" /\ call.op = "download_gnis_data" /\ ValidLocation(call.location)
    /\ call.resp.kind = "error" /\ call.resp.at = "iter_content"
    /\ RaisedGNISDataError

(***************************************************************************)
(* C10, as claimed: extract_gpkg_from_zip either returns the bytes of the  *)
(* member named after the location or raises GNISDataError; for a missing  *)
(* member the message names the expected file and lists the members.       *)
(***************************************************************************)
C10_ExtractReturnsOrRaisesGNISDataError ==
    (pc = "idle" /\ call.op = "extract_gpkg_from_zip")
    => /\ Returned \/ RaisedGNISDataError
       /\ Returned
          => \E i \in 1..(Len(call.zip_data) - 1) :
                /\ call.zip_data[i].name = ExpectedFilename(call.location)
                /\ call.zip_data[i].data = ret.value
       /\ (IsZip(call.zip_data)
             /\ \A i \in 1..(Len(call.zip_data) - 1) :
                   call.zip_data[i].name # ExpectedFilename(call.location))
          => /\ RaisedGNISDataError
             /\ ret.msg.expected_filename = ExpectedFilename(call.location)
             /\ ret.msg.namelist = Namelist(call.zip_data)

(***************************************************************************)
(* C11, as claimed: a call of load_gnis_gdf that does not return a table   *)
(* raises GNISDataError, whichever step failed (the download, the          *)
(* extraction, the creation of the cache root, the write of the cached or  *)
(* the temporary file, the deletion of a corrupted entry, the load), and a *)
(* failed load of downloaded bytes carries the loader's message.           *)
(***************************************************************************)
C11_OnlyGNISDataErrorEscapes ==
    LoadEnded
    => /\ Returned \/ RaisedGNISDataError
       /\ "fresh_failed" \in path
          => /\ RaisedGNISDataError
             /\ ret.msg.cause \in LoaderErrors

(***************************************************************************)
(* C18, as claimed: a call with use_cache=True and an invalid location     *)
(* does not create the cache root, reads no file under it and deletes      *)
(* none.                                                                   *)
(***************************************************************************)
C18_InvalidLocationNoIO ==
    (call.op = "load_gnis_gdf" /\ call.use_cache /\ ~ValidLocation(call.location))
    => /\ rootExists = call.root_existed
       /\ loads = <<>>
       /\ "deleted" \notin path

(***************************************************************************)
(* C19: a call with use_cache=False leaves the cache root as it was (not   *)
(* created, every entry unchanged), reads no file of the cache root even   *)
(* when one exists for the location, and calls the download exactly once.  *)
(***************************************************************************)
C19_NoCacheState ==
    (call.op = "load_gnis_gdf" /\ ~call.use_cache)
    => /\ rootExists = call.root_existed
       /\ "entry_found" \notin path
       /\ \A i \in 1..Len(loads) : loads[i].file = <<"tmp">>
       /\ pc \notin {"check_cache", "read_cache", "unlink_cache"}
       /\ pc = "download" => nDownload = 0
       /\ pc # "download" => nDownload = 1

C19_NoCacheStep ==
    (call'.op = "load_gnis_gdf" /\ ~call'.use_cache)
    => (cache' = cache /\ rootExists' = rootExists)

C19_UncachedCallLeavesCacheAlone == [](C19_NoCacheState) /\ [][C19_NoCacheStep]_vars

C19_Witness ==
    /\ LoadEnded /\ ~call.use_cache /\ Returned
    /\ CacheFile \in DOMAIN cache
    /\ nDownload = 1
    /\ cache[CacheFile] # ret.value.content

(***************************************************************************)
(* C20: once a call with use_cache=True has downloaded, extracted and      *)
(* written the cache, the cache root exists and holds, under the name      *)
(* Gazetteer_<location in upper case>_GPKG.gpkg (Gazetteer_National_GPKG   *)
(* .gpkg for 'National'), exactly the bytes the extraction returned.       *)
(***************************************************************************)
C20_EntryName ==
    IF Upper(call.location) = <<"N","A","T","I","O","N","A","L">>
    THEN <<"Gazetteer_National_GPKG.gpkg">>
    ELSE <<"Gazetteer_">> \o Upper(call.location) \o <<"_GPKG.gpkg">>

C20_Saved ==
    /\ call.op = "load_gnis_gdf" /\ call.use_cache
    /\ \/ pc = "load"
       \/ pc = "idle" /\ (\E t \in {"fresh_loaded", "fresh_failed"} : t \in path)

C20_EntryIsExtractedBytes ==
    C20_Saved
    => /\ rootExists
       /\ C20_EntryName \in DOMAIN cache
       /\ cache[C20_EntryName] = gpkg_data
       /\ nExtract = 1
       /\ Len(http) = 1

C20_Witness ==
    /\ C20_Saved /\ LoadEnded /\ Returned
    /\ ~call.root_existed
    /\ call.location = <<"c","a">>
    /\ cache[<<"Gazetteer_", "C", "A", "_GPKG.gpkg">>] = ret.value.content

(***************************************************************************)
(* Vocabulary of the claims about create_enriched_export.                  *)
(***************************************************************************)
ExportCall == call.op = "create_enriched_export"

IsGetElevation(e) == e.call = "get_elevation"

IsSleep(e) == e.call = "time.sleep"

IsClearCache(e) == e.call = "clear_cache"

GetElevationCalls == SelectSeq(events, IsGetElevation)

\* both layers were loaded and at least one row passed the filter
TableBuilt ==
    /\ ExportCall
    /\ \/ pc \in {"elevation", "write", "clear"}
       \/ pc = "idle" /\ table # <<>>

\* the elevation loop has passed every row
ElevationLoopOver ==
    /\ TableBuilt /\ call.add_elevation
    /\ pc \in {"write", "clear", "idle"}

(***************************************************************************)
(* C12: with add_elevation=True and n filtered rows, once the loop is over *)
(* get_elevation was called min(n, max_elevation_requests) times (n times  *)
(* without a limit), the k-th call with the coordinates of the k-th row,   *)
(* and every row beyond the limit holds None.                              *)
(***************************************************************************)
C12_Budget ==
    IF call.max_elevation_requests = PyNone THEN Len(table)
    ELSE IF Len(table) <= call.max_elevation_requests.value THEN Len(table)
    ELSE call.max_elevation_requests.value

C12_ElevationCallsWithinLimit ==
    /\ (ExportCall /\ ~call.add_elevation) => GetElevationCalls = <<>>
    /\ ElevationLoopOver
       => /\ Len(GetElevationCalls) = C12_Budget
          /\ \A k \in 1..Len(GetElevationCalls) :
                /\ GetElevationCalls[k].row = k
                /\ GetElevationCalls[k].latitude = table[k].latitude
                /\ GetElevationCalls[k].longitude = table[k].longitude
          /\ \A k \in 1..Len(table) : k > C12_Budget => table[k].elevation_ft = PyNone

C12_Witness ==
    /\ ElevationLoopOver /\ pc = "idle" /\ Returned
    /\ call.max_elevation_requests = PyInt(2)
    /\ Len(table) = 3
    /\ Len(GetElevationCalls) = 2
    /\ table[2].elevation_ft = PyInt(8000)
    /\ table[3].elevation_ft = PyNone

(***************************************************************************)
(* C13: once the elevation loop is over, every pause lasts 0.1 and stands  *)
(* between two get_elevation calls, no two get_elevation calls follow each *)
(* other without a pause, and so the pauses number the requests minus one  *)
(* (none for 0 or 1 requests); no pause follows the last request.          *)
(***************************************************************************)
C13_Pauses == SelectSeq(events, IsSleep)

C13_PauseBetweenRequests ==
    /\ (ExportCall /\ ~call.add_elevation) => C13_Pauses = <<>>
    /\ ElevationLoopOver
       => /\ Len(C13_Pauses) = (IF Len(GetElevationCalls) = 0 THEN 0
                                ELSE Len(GetElevationCalls) - 1)
          /\ \A j \in 1..Len(events) :
                /\ IsSleep(events[j])
                   => /\ events[j].seconds = "0.1"
                      /\ j > 1 /\ IsGetElevation(events[j - 1])
                      /\ j < Len(events) /\ IsGetElevation(events[j + 1])
                /\ (IsGetElevation(events[j]) /\ j < Len(events))
                   => ~IsGetElevation(events[j + 1])

C13_Witness ==
    /\ ElevationLoopOver /\ pc = "idle" /\ Returned
    /\ Len(GetElevationCalls) = 3
    /\ Len(C13_Pauses) = 2
    /\ GetElevationCalls[2].raised

(***************************************************************************)
(* C14: a get_elevation call that raises leaves None (not 0) in its row,   *)
(* the rows after it are still queried while the limit allows, and the     *)
(* error does not end the export: the call goes on to return the table     *)
(* with all its rows.                                                      *)
(***************************************************************************)
C14_SomeLookupRaised == \E k \in 1..Len(GetElevationCalls) : GetElevationCalls[k].raised

C14_LookupFailureAbsorbed ==
    (ExportCall /\ C14_SomeLookupRaised)
    => /\ \A k \in 1..Len(GetElevationCalls) :
             IF GetElevationCalls[k].raised
             THEN table[k].elevation_ft = PyNone
             ELSE table[k].elevation_ft = PyInt(8000)
       /\ pc = "elevation" => Len(GetElevationCalls) = (IF row <= C12_Budget THEN row ELSE C12_Budget)
       /\ pc # "elevation" => Len(GetElevationCalls) = C12_Budget
       /\ pc = "idle" => \/ Returned /\ ret.value = table
                         \/ ret = OSError("to_csv")

C14_Witness ==
    /\ ExportCall /\ pc = "idle" /\ Returned
    /\ Len(ret.value) = 3
    /\ Len(GetElevationCalls) = 3
    /\ ret.value[1].elevation_ft = PyInt(8000)
    /\ GetElevationCalls[2].raised
    /\ ret.value[2].elevation_ft = PyNone
    /\ ret.value[3].elevation_ft = PyInt(8000)

(***************************************************************************)
(* C15: the returned table holds exactly the DomesticNames rows whose      *)
(* class is one of feature_classes, letter for letter, each once and in    *)
(* their order; when both layers load and no row matches, the call raises  *)
(* GNISDataError naming the requested classes and the location.            *)
(***************************************************************************)
C15_MatchingIds ==
    {i \in 1..Len(call.domestic) : call.domestic[i].feature_class \in call.feature_classes}

C15_LayersLoaded ==
    /\ ExportCall /\ Len(events) >= 2
    /\ ~events[1].raised /\ ~events[2].raised

C15_ExactFilter ==
    /\ (ExportCall /\ pc = "idle" /\ Returned)
       => /\ {ret.value[k].feature_id : k \in 1..Len(ret.value)} = C15_MatchingIds
          /\ Len(ret.value) = Cardinality(C15_MatchingIds)
          /\ \A k \in 1..Len(ret.value) :
                /\ ret.value[k].class = call.domestic[ret.value[k].feature_id].feature_class
                /\ k > 1 => ret.value[k - 1].feature_id < ret.value[k].feature_id
    /\ (C15_LayersLoaded /\ C15_MatchingIds = {} /\ pc # "filter")
       => /\ pc = "idle"
          /\ RaisedGNISDataError
          /\ ret.msg.feature_classes = call.feature_classes
          /\ ret.msg.location = call.location

C15_Witness ==
    /\ ExportCall /\ pc = "idle" /\ Returned
    /\ call.feature_classes = {Summit, Ridge}
    /\ Len(call.domestic) = 3
    /\ call.domestic[1].feature_class = <<"S","u","m","m","i","t">>
    /\ call.domestic[2].feature_class = Ridge
    /\ call.domestic[3].feature_class = Summit
    /\ Len(ret.value) = 2

(***************************************************************************)
(* C16: the joined table has one row for each filtered DomesticNames row,  *)
(* whatever rows the history layer holds; a row without a history row has  *)
(* the field desc_history, equal to the empty string, and a row with one   *)
(* has its description and history.                                        *)
(***************************************************************************)
C16_HistoryOf(id) ==
    {j \in 1..Len(call.history) : call.history[j].feature_id = id}

C16_LeftJoinKeepsRows ==
    TableBuilt
    => /\ Len(table) = Cardinality(C15_MatchingIds)
       /\ \A k \in 1..Len(table) :
             /\ table[k].feature_id \in C15_MatchingIds
             /\ \A k2 \in 1..Len(table) : table[k2].feature_id = table[k].feature_id => k2 = k
             /\ "desc_history" \in DOMAIN table[k]
             /\ C16_HistoryOf(table[k].feature_id) = {} => table[k].desc_history = <<>>
             /\ \A j \in C16_HistoryOf(table[k].feature_id) :
                   table[k].desc_history = call.history[j].description \o call.history[j].history

C16_Witness ==
    /\ TableBuilt /\ pc = "idle" /\ Returned
    /\ Len(table) = 3
    /\ Len(call.history) = 2
    /\ table[1].desc_history # <<>>
    /\ table[2].desc_history = <<>>
    /\ table[3].desc_history # <<>>

(***************************************************************************)
(* C17: clear_cache is never called when clear_cache_after is false; when  *)
(* it is true, clear_cache is called at most once, with the location and   *)
(* the cache_dir of the call, as the last thing before the call returns:   *)
(* after both layers were loaded and the table was built (every row with   *)
(* its elevation, the file written); a call that returns called it once.   *)
(***************************************************************************)
C17_ClearCalls == SelectSeq(events, IsClearCache)

C17_ClearOnceAfterBuild ==
    ExportCall
    => /\ ~call.clear_cache_after => C17_ClearCalls = <<>>
       /\ Len(C17_ClearCalls) <= 1
       /\ (pc = "idle" /\ Returned /\ call.clear_cache_after) => Len(C17_ClearCalls) = 1
       /\ C17_ClearCalls # <<>>
          => /\ C17_ClearCalls[1].location = call.location
             /\ C17_ClearCalls[1].cache_dir = call.cache_dir
             /\ IsClearCache(events[Len(events)])
             /\ C15_LayersLoaded
             /\ events[1].layer = "DomesticNames"
             /\ events[2].layer = "FeatureDescriptionHistory"
             /\ pc = "idle" /\ Returned /\ ret.value = table /\ table # <<>>
             /\ call.add_elevation
                => /\ row = Len(table)
                   /\ \A k \in 1..Len(table) : "elevation_ft" \in DOMAIN table[k]

C17_Witness ==
    /\ ExportCall /\ pc = "idle" /\ Returned
    /\ call.clear_cache_after /\ call.cache_dir = "D" /\ call.add_elevation
    /\ call.output_path # None
    /\ Len(events) = 7
    /\ IsClearCache(events[7])

(***************************************************************************)
(* C21: for a valid location, _construct_url and extract_gpkg_from_zip     *)
(* give for the location as passed what they give for it in upper case,    *)
(* and load_gnis_gdf and clear_cache name the same cache file for both.    *)
(***************************************************************************)
C21_CaseInsensitive ==
    (pc = "idle" /\ call.op \in {"_construct_url", "extract_gpkg_from_zip"}
        /\ ValidLocation(call.location))
    => /\ call.op = "_construct_url" => ret = ConstructUrl(Upper(call.location))
       /\ call.op = "extract_gpkg_from_zip"
          => ret = ExtractGpkgFromZip(call.zip_data, Upper(call.location))
       /\ ExpectedFilename(call.location) = ExpectedFilename(Upper(call.location))
       /\ GpkgFilename(call.location) = GpkgFilename(Upper(call.location))
       /\ ClearFilename(call.location) = ClearFilename(Upper(call.location))
       /\ ClearFilename(call.location) = GpkgFilename(call.location)

C21_Witness ==
    /\ pc = "idle" /\ call.op = "extract_gpkg_from_zip"
    /\ call.location = <<"c","a">>
    /\ Returned

(***************************************************************************)
(* Vocabulary of the claims about the cache root.                          *)
(***************************************************************************)
ClearEnded == pc = "idle" /\ call.op = "clear_cache"

\* what differs between the cache root before and after the call
RemovedEntries == DOMAIN call.cache_before \ DOMAIN cache

KeptAsWas ==
    /\ DOMAIN cache \subseteq DOMAIN call.cache_before
    /\ \A n \in DOMAIN cache : cache[n] = call.cache_before[n]

(***************************************************************************)
(* C22: clear_cache with a location removes the cache entry of that        *)
(* location (the file load_gnis_gdf caches it in) and nothing else;        *)
(* without a location it removes every .gpkg entry and nothing else.       *)
(* What stays is unchanged.                                                *)
(***************************************************************************)
C22_ClearsExactly ==
    ClearEnded
    => /\ KeptAsWas
       /\ rootExists = call.root_existed
       /\ HasLocation(call.location)
          => /\ RemovedEntries \subseteq {GpkgFilename(call.location.value)}
             /\ Returned => GpkgFilename(call.location.value) \notin DOMAIN cache
       /\ ~HasLocation(call.location)
          => /\ RemovedEntries \subseteq CacheNames
             /\ Returned => DOMAIN cache \cap CacheNames = {}

C22_Witness ==
    /\ ClearEnded /\ Returned
    /\ call.location = PyStr(<<"u","s">>)
    /\ RemovedEntries = {<<"Gazetteer_National_GPKG.gpkg">>}
    /\ <<"Gazetteer_", "C", "A", "_GPKG.gpkg">> \in DOMAIN cache

(***************************************************************************)
(* C23: when the cache root does not exist, or the location named has no   *)
(* entry, clear_cache returns without raising, removes and changes         *)
(* nothing, and does not create the root.                                  *)
(***************************************************************************)
C23_NothingToClear ==
    \/ ~call.root_existed
    \/ /\ HasLocation(call.location)
       /\ GpkgFilename(call.location.value) \notin DOMAIN call.cache_before

C23_ClearIsNoOp ==
    (ClearEnded /\ C23_NothingToClear)
    => /\ ret = Return(None)
       /\ cache = call.cache_before
       /\ rootExists = call.root_existed

C23_Witness ==
    /\ ClearEnded /\ call.root_existed
    /\ call.location = PyStr(<<"N","Y">>)
    /\ DOMAIN cache = CacheRootNames
    /\ Returned

(***************************************************************************)
(* C24: get_cache_info lists the .gpkg entries under the root, each once,  *)
(* in ascending order of file name, each with its size, and the total is   *)
(* the sum of these sizes; without a root the list is empty and the total  *)
(* 0.  The call leaves the root and every entry as they were.              *)
(***************************************************************************)
C24_InOrder ==
    <<<<"Gazetteer_", "C", "A", "_GPKG.gpkg">>, <<"Gazetteer_National_GPKG.gpkg">>,
      <<"Gazetteer_", "Z", "Z", "_GPKG.gpkg">>>>

C24_Listed(name) == name \in DOMAIN cache

RECURSIVE C24_Sum(_)
C24_Sum(entries) ==
    IF entries = <<>> THEN 0 ELSE Head(entries).size_mb.num + C24_Sum(Tail(entries))

C24_InfoIsExact ==
    (pc = "idle" /\ call.op = "get_cache_info")
    => /\ Returned
       /\ cache = call.cache_before
       /\ rootExists = call.root_existed
       /\ LET info == ret.value IN
          /\ [i \in 1..Len(info.cached_files) |-> info.cached_files[i].filename]
                = SelectSeq(C24_InOrder, C24_Listed)
          /\ \A i \in 1..Len(info.cached_files) :
                /\ info.cached_files[i].size_mb.num = Len(cache[info.cached_files[i].filename])
                /\ info.cached_files[i].size_mb.den = info.total_size_mb.den
          /\ info.total_size_mb.num = C24_Sum(info.cached_files)
          /\ ~rootExists => info.cached_files = <<>> /\ info.total_size_mb.num = 0

C24_Witness ==
    /\ pc = "idle" /\ call.op = "get_cache_info" /\ Returned
    /\ DOMAIN cache = CacheRootNames
    /\ Len(ret.value.cached_files) = 3
    /\ ret.value.total_size_mb.num = 3

(***************************************************************************)
(* Vocabulary of the get_elevation claims.                                 *)
(***************************************************************************)
ElevationEnded == pc = "idle" /\ call.op = "get_elevation"

UnitsRequested == IF call.units = "<omitted>" THEN "Feet" ELSE call.units

ArgsOutOfRange ==
    \/ call.latitude < -90 \/ call.latitude > 90
    \/ call.longitude < -180 \/ call.longitude > 180
    \/ UnitsRequested \notin {"Feet", "Meters"}

RaisedValueError == ret.kind = "raise" /\ ret.type = "ValueError"

ServiceSentObject == call.resp.kind = "json" /\ call.resp.data.shape = "object"

ServiceSentValue == ServiceSentObject /\ call.resp.data.has_value

ServiceSentNumber == ServiceSentValue /\ call.resp.data.value.type = "number"

(***************************************************************************)
(* C25: get_elevation raises ValueError and issues no HTTP request when    *)
(* the latitude is outside [-90, 90], the longitude outside [-180, 180]    *)
(* or the units neither 'Feet' nor 'Meters'; the boundary values -90, 90,  *)
(* -180 and 180 are accepted.                                              *)
(***************************************************************************)
C25_InvalidArgumentsRejected ==
    ElevationEnded
    => /\ ArgsOutOfRange => RaisedValueError /\ http = <<>>
       /\ (/\ call.latitude \in {-90, 90}
           /\ call.longitude \in {-180, 180}
           /\ UnitsRequested \in {"Feet", "Meters"}) => ~RaisedValueError /\ http # <<>>

C25_Witness ==
    /\ ElevationEnded
    /\ call.latitude = 0 /\ call.longitude = 181 /\ call.units = "Meters"
    /\ RaisedValueError
    /\ http = <<>>

(***************************************************************************)
(* C26, as claimed: a response without a 'value' field, a null value and   *)
(* the sentinel -1000000 each raise GNISDataError, a value of 0 is         *)
(* returned as 0 and every negative elevation is returned as a negative    *)
(* integer.  An elevation between -0.5 and 0 is returned as 0.             *)
(***************************************************************************)
C26_AsClaimed ==
    (ElevationEnded /\ ~ArgsOutOfRange /\ ServiceSentObject)
    => LET data == call.resp.data IN
       /\ ~data.has_value => RaisedGNISDataError
       /\ (data.has_value /\ data.value.type = "null") => RaisedGNISDataError
       /\ (data.has_value /\ data.value.type = "number")
          => /\ data.value.num = -1000000 * data.value.den => RaisedGNISDataError
             /\ data.value.num = 0 => ret = Return(0)
             /\ (data.value.num < 0 /\ data.value.num # -1000000 * data.value.den)
                => Returned /\ ret.value < 0

(***************************************************************************)
(* C26: get_elevation never returns a number for 'no data': a response     *)
(* without a 'value' field, a null value and the sentinel -1000000 each    *)
(* raise GNISDataError, while a value of 0 is returned as 0 and a negative *)
(* elevation is returned as its nearest integer, which is negative for     *)
(* every elevation below -0.5 and 0 for the others.                        *)
(***************************************************************************)
C26_NoDataIsNeverANumber ==
    (ElevationEnded /\ ~ArgsOutOfRange /\ ServiceSentObject)
    => LET data == call.resp.data IN
       /\ ~data.has_value => RaisedGNISDataError
       /\ (data.has_value /\ data.value.type = "null") => RaisedGNISDataError
       /\ (data.has_value /\ data.value.type = "number")
          => LET num == data.value.num
                 den == data.value.den
             IN  /\ num = -1000000 * den => RaisedGNISDataError
                 /\ num = 0 => ret = Return(0)
                 /\ (num < 0 /\ num # -1000000 * den)
                    => /\ Returned
                       /\ 2 * num < 0 - den => ret.value < 0
                       /\ 2 * num >= 0 - den => ret.value = 0

C26_Witness ==
    /\ ElevationEnded /\ ~ArgsOutOfRange /\ ServiceSentNumber
    /\ call.resp.data.value.num = -4
    /\ call.resp.data.value.den = 10
    /\ ret = Return(0)

(***************************************************************************)
(* C27: for arguments that pass validation get_elevation returns an        *)
(* integer or raises GNISDataError: a transport failure, an HTTP error     *)
(* status, a JSON-decode failure, a document that is no object and a       *)
(* value that is no number are each raised as GNISDataError; ValueError    *)
(* is raised only for invalid arguments.                                   *)
(***************************************************************************)
C27_OnlyGNISDataErrorForServiceFaults ==
    ElevationEnded
    => /\ RaisedValueError => ArgsOutOfRange
       /\ ~ArgsOutOfRange
          => /\ (Returned /\ ret.value \in Int) \/ RaisedGNISDataError
             /\ call.resp.kind = "error" => RaisedGNISDataError
             /\ (call.resp.kind = "json" /\ call.resp.data.shape # "object")
                => RaisedGNISDataError
             /\ (ServiceSentValue
                 /\ call.resp.data.value.type \in {"string", "array", "nan", "inf"})
                => RaisedGNISDataError

C27_Witness ==
    /\ ElevationEnded /\ ~ArgsOutOfRange
    /\ call.resp.kind = "error" /\ call.resp.at = "json" /\ call.resp.base = "ValueError"
    /\ RaisedGNISDataError

(***************************************************************************)
(* C28: a get_elevation call with valid arguments issues exactly one HTTP  *)
(* GET to the elevation service, with x = longitude, y = latitude, the     *)
(* requested units (Feet by default), output = json and timeout 10,        *)
(* whatever the service answers: there is no second request.               *)
(***************************************************************************)
C28_OneQueryPerCall ==
    (ElevationEnded /\ ~ArgsOutOfRange)
    => http = <<[url |-> "https://epqs.nationalmap.gov/v1/json",
                 params |-> [x |-> call.longitude, y |-> call.latitude,
                             units |-> UnitsRequested, output |-> "json"],
                 timeout |-> 10]>>

C28_Witness ==
    /\ ElevationEnded
    /\ call.latitude = 36 /\ call.longitude = -118 /\ call.units = "<omitted>"
    /\ call.resp.kind = "error" /\ call.resp.cause = "Timeout"
    /\ Len(http) = 1
    /\ http[1].params.units = "Feet"

(***************************************************************************)
(* C29: get_elevation returns the integer nearest to the service's         *)
(* numeric value (14505.3 -> 14505, 1234.6 -> 1235, 1234.4 -> 1234): the   *)
(* result is within 0.5 of the value, and nearer than 0.5 when the value   *)
(* is not halfway between two integers.                                    *)
(***************************************************************************)
C29_Distance(a, b) == IF a >= b THEN a - b ELSE b - a

C29_NearestInteger ==
    (ElevationEnded /\ ~ArgsOutOfRange /\ ServiceSentNumber /\ Returned)
    => LET num == call.resp.data.value.num
           den == call.resp.data.value.den
           halfway == (2 * num) % den = 0 /\ num % den # 0
       IN  /\ 2 * C29_Distance(ret.value * den, num) <= den
           /\ ~halfway => 2 * C29_Distance(ret.value * den, num) < den
           /\ (num = 145053 /\ den = 10) => ret.value = 14505
           /\ (num = 12346 /\ den = 10) => ret.value = 1235
           /\ (num = 12344 /\ den = 10) => ret.value = 1234

C29_Witness ==
    /\ ElevationEnded /\ ~ArgsOutOfRange /\ ServiceSentNumber
    /\ call.resp.data.value.num = 12346
    /\ call.resp.data.value.den = 10
    /\ ret = Return(1235)

(***************************************************************************)
(* C30: download_gnis_data for a valid location issues exactly one         *)
(* streaming HTTP GET, with timeout 30, to BASE_URL followed by            *)
(* 'Gazetteer_<LOCATION>_GPKG.zip' (National for the national aliases),    *)
(* whether the transfer succeeds or fails: a failed transfer is not        *)
(* requested again.                                                        *)
(***************************************************************************)
C30_ArchiveName ==
    IF Upper(call.location) \in VALID_ALL_LOCATIONS
    THEN <<"Gazetteer_National_GPKG.zip">>
    ELSE <<"Gazetteer_">> \o Upper(call.location) \o <<"_GPKG.zip">>

C30_OneStreamingGet ==
    (pc = "idle" /\ call.op = "download_gnis_data" /\ ValidLocation(call.location))
    => /\ Len(http) = 1
       /\ http[1].url = <<BASE_URL>> \o C30_ArchiveName
       /\ http[1].stream
       /\ http[1].timeout = 30

C30_Witness ==
    /\ pc = "idle" /\ call.op = "download_gnis_data"
    /\ call.location = <<"c","a">>
    /\ call.resp.kind = "error" /\ call.resp.cause = "Timeout"
    /\ Len(http) = 1
    /\ http[1].url = <<BASE_URL, "Gazetteer_", "C", "A", "_GPKG.zip">>

(***************************************************************************)
(* C34: for a service value exactly halfway between two integers           *)
(* get_elevation returns the even neighbour (1234.5 -> 1234,               *)
(* 1235.5 -> 1236, -0.5 -> 0), not the neighbour away from zero.           *)
(***************************************************************************)
C34_Halfway ==
    /\ ServiceSentNumber
    /\ call.resp.data.value.num # -1000000 * call.resp.data.value.den
    /\ (2 * call.resp.data.value.num) % call.resp.data.value.den = 0
    /\ call.resp.data.value.num % call.resp.data.value.den # 0

C34_TieGoesToEven ==
    (ElevationEnded /\ ~ArgsOutOfRange /\ C34_Halfway)
    => LET num == call.resp.data.value.num
           den == call.resp.data.value.den
       IN  /\ Returned
           /\ ret.value % 2 = 0
           /\ 2 * C29_Distance(ret.value * den, num) = den
           /\ (num = 2469 /\ den = 2) => ret.value = 1234
           /\ (num = 2471 /\ den = 2) => ret.value = 1236
           /\ (num = -1 /\ den = 2) => ret.value = 0

C34_Witness ==
    /\ ElevationEnded /\ ~ArgsOutOfRange /\ C34_Halfway
    /\ call.resp.data.value.num = 2471
    /\ call.resp.data.value.den = 2
    /\ ret = Return(1236)

(***************************************************************************)
(* C35: on success download_gnis_data returns the concatenation, in        *)
(* arrival order, of the chunks the response yields, requested with the    *)
(* caller's chunk_size: an empty chunk adds nothing and no chunk is        *)
(* dropped, duplicated or reordered.                                       *)
(***************************************************************************)
RECURSIVE C35_Concat(_)
C35_Concat(chunks) ==
    IF chunks = <<>> THEN <<>> ELSE Head(chunks) \o C35_Concat(Tail(chunks))

C35_ChunksInArrivalOrder ==
    (/\ pc = "idle" /\ call.op = "download_gnis_data"
     /\ ValidLocation(call.location) /\ call.resp.kind = "ok")
    => /\ ret = Return(C35_Concat(call.resp.chunks))
       /\ Len(http) = 1
       /\ http[1].chunk_size = call.chunk_size

C35_Witness ==
    /\ pc = "idle" /\ call.op = "download_gnis_data" /\ call.resp.kind = "ok"
    /\ call.chunk_size = 8192
    /\ Len(call.resp.chunks) = 3
    /\ call.resp.chunks[1] # <<>>
    /\ call.resp.chunks[2] = <<>>
    /\ call.resp.chunks[3] # <<>>
    /\ call.resp.chunks[1] # call.resp.chunks[3]
    /\ Returned
    /\ ret.value = call.resp.chunks[1] \o call.resp.chunks[3]

(***************************************************************************)
(* C32: no step of load_gnis_gdf(A, use_cache=True) creates, overwrites or *)
(* deletes the cache entry of a location whose normalized code differs     *)
(* from A's (the national aliases are one location): every file of the     *)
(* cache root but A's own stays as it was, on the paths through a cache    *)
(* hit, the recovery from a corrupted entry and every failure.             *)
(***************************************************************************)
C32_OwnEntry(location) ==
    IF Upper(location) \in VALID_ALL_LOCATIONS
    THEN <<"Gazetteer_National_GPKG.gpkg">>
    ELSE <<"Gazetteer_">> \o Upper(location) \o <<"_GPKG.gpkg">>

C32_OthersKept ==
    (call'.op = "load_gnis_gdf" /\ call'.use_cache)
    => \A name \in (DOMAIN cache \cup DOMAIN cache') \ {C32_OwnEntry(call'.location)} :
          /\ name \in DOMAIN cache
          /\ name \in DOMAIN cache'
          /\ cache'[name] = cache[name]

C32_OtherEntriesUntouched == [][C32_OthersKept]_vars

C32_Witness ==
    /\ LoadEnded /\ call.use_cache /\ Returned
    /\ call.location = <<"c","a">>
    /\ "deleted" \in path
    /\ DOMAIN cache = CacheNames
    /\ cache[<<"Gazetteer_", "C", "A", "_GPKG.gpkg">>] # cache[<<"Gazetteer_National_GPKG.gpkg">>]

(***************************************************************************)
(* C33: clear_cache(location, D) targets the file that                     *)
(* load_gnis_gdf(location, use_cache=True, cache_dir=D) reads and writes,  *)
(* in any letter case and for every national alias: a cached load that     *)
(* directly follows a clear_cache call that returned, for the same         *)
(* location, finds no entry, reads no cached file and, once the cache      *)
(* root is there, calls the download exactly once.                         *)
(***************************************************************************)
C33_LoadFollowsClear ==
    /\ call.op = "load_gnis_gdf" /\ call.use_cache
    /\ prev.op = "clear_cache" /\ prev.returned
    /\ prev.location # PyNone
    /\ \/ Upper(prev.location.value) = Upper(call.location)
       \/ {Upper(prev.location.value), Upper(call.location)} \subseteq VALID_ALL_LOCATIONS

C33_ClearedLoadDownloads ==
    C33_LoadFollowsClear
    => /\ "entry_found" \notin path
       /\ pc \notin {"read_cache", "unlink_cache"}
       /\ loads # <<>> => nDownload = 1
       /\ (pc = "idle" /\ ret # OSError("mkdir")) => nDownload = 1

C33_Witness ==
    /\ C33_LoadFollowsClear /\ LoadEnded /\ Returned
    /\ prev.location = PyStr(<<"u","s">>)
    /\ call.location = <<"N","a","t","i","o","n","a","l">>
    /\ prev.removed = {<<"Gazetteer_National_GPKG.gpkg">>}
    /\ nDownload = 1

(***************************************************************************)
(* C31, as claimed: when clear_cache(L) or a second                        *)
(* load_gnis_gdf(L, use_cache=True) runs concurrently with                 *)
(* load_gnis_gdf(L, use_cache=True) on the same cache root, then in every  *)
(* interleaving of their file-system steps each load call that has ended   *)
(* returned a table or raised GNISDataError.  A load whose corrupted entry *)
(* was removed by the other caller raises FileNotFoundError from its own   *)
(* unlink.                                                                 *)
(***************************************************************************)
C31_LoadOutcomeOk(caller) ==
    (caller.pc = "idle" /\ caller.call.op = "load_gnis_gdf")
    => \/ caller.ret.kind = "return"
       \/ caller.ret.kind = "raise" /\ caller.ret.type = "GNISDataError"

C31_RacingLoadsReturnOrRaiseGNISDataError ==
    C31_LoadOutcomeOk(Caller) /\ C31_LoadOutcomeOk(other)

====
